---- MODULE Spec2Model ----
(***************************************************************************)
(* The two-stage generation pipeline of backend/freepik_gemini.py:         *)
(* task submission, task polling, artifact download and the driver         *)
(* two_step_gemini_image, as a state machine; and the HTTP routes of       *)
(* backend/app.py that run it, in a request handler or on a background     *)
(* thread, with the map task_status they share.                            *)
(*                                                                         *)
(* Python values are modelled as follows.                                  *)
(*   dict      a function whose domain is the set of keys present          *)
(*   list      a sequence                                                  *)
(*   None      the string None (no remote string of the model equals it)   *)
(*   bytes     a sequence of one-character strings                         *)
(*   f-string  a record: fmt names the literal text, the other fields are  *)
(*             the interpolated values                                     *)
(*   time      integers; time.time() as read by the thread of a run is     *)
(*             the field now of its frame, and only time.sleep advances    *)
(*             it (status queries are instantaneous)                       *)
(* The remote service answers every request with an HTTP response whose    *)
(* body is a JSON object; "data", when present, is a JSON object.          *)
(* The body of a request to a route of app.py is JSON: an object or null.  *)
(* uuid.uuid4() gives every request a value no other request gets: the    *)
(* name of the request.                                                    *)
(***************************************************************************)
EXTENDS Integers, Sequences, FiniteSets, TLC

VARIABLES
    run,      \* run[r]: the frame (locals, position, outcome) of pipeline run r
    files,    \* the file system: path -> content, for the files that exist
    dirs,     \* the directories that exist
    environ,  \* os.environ.get("FREEPIK_API_KEY")
    handlers, \* handlers[h]: the request handler thread of HTTP request h
    worker,   \* worker[h]: the position of the background_task thread of request h
    task_status, \* the dict task_status of app.py
    writes,   \* observation: writes[k], the writes to task_status[k] in order
    lookup,   \* the last answer of /api/task-status/<task_id>
    agent     \* the run of the graph of video_gen_agent/agent.py: position and state

appvars == <<environ, handlers, worker, task_status, writes, lookup, agent>>
vars == <<run, files, dirs, appvars>>

----------------------------------------------------------------------------
(* Bounds of the model *)

MaxTimeout == 2
MaxPollInterval == 2

Timeouts == 0..MaxTimeout
PollIntervals == 1..MaxPollInterval

----------------------------------------------------------------------------
(* Python values *)

None == "None"
EmptyDict == [k \in {} |-> None]

\* dict.get(key, default)
DictGet(d, key, default) == IF key \in DOMAIN d THEN d[key] ELSE default

\* a test that takes only None for a missing value
TruthyStrNotNone(s) == s # None

\* truth value of a str-or-None
TruthyStr(s) == s # None /\ s # ""

\* truth value of a list
TruthyList(l) == Len(l) > 0

----------------------------------------------------------------------------
(* Program constants *)

FREEPIK_GEMINI_ENDPOINT == "https://api.freepik.com/v1/ai/gemini-2-5-flash-image-preview"
FREEPIK_VIDEO_ENDPOINT == "https://api.freepik.com/v1/ai/image-to-video/kling-v2-5-pro"
HTTP_OK == 200

\* a URL: f"{base}/{path}", or base alone when path is ""
Url(base, path) == [base |-> base, path |-> path]

\* f"{ENDPOINT}/{task_id}"
TaskUrl(endpoint, task_id) == Url(endpoint, task_id)

----------------------------------------------------------------------------
(* The remote service: what it may answer *)

ApiKey == "key"
BasePrompt == "base prompt"
AdPrompt == "ad prompt"
OutputDir == "outputs"
\* an image path that does not depend on the run
SharedImagePath(r) == <<OutputDir, <<"base", "image.png">>>>

BaseImagePath(r) == <<OutputDir, <<r, "image.png">>>>
VideoOutputPath(r) == <<OutputDir, <<r, "video.mp4">>>>

\* the task ids each endpoint assigns
TaskIds(endpoint) == IF endpoint = FREEPIK_GEMINI_ENDPOINT THEN {"t1"} ELSE {"t2"}
Statuses == {"IN_PROGRESS", "COMPLETED", "FAILED"}
GeneratedLists == {<<>>, <<"u1">>, <<"u2", "u1">>}

ErrorCodes == {500}

\* {"data": {"task_id": ...}} with any of the keys missing, task_id possibly ""
SubmitData(endpoint) ==
    {EmptyDict} \cup {[task_id |-> t] : t \in TaskIds(endpoint) \cup {""}}
SubmitBodies(endpoint) == {EmptyDict} \cup {[data |-> d] : d \in SubmitData(endpoint)}
SubmitResponses(endpoint) ==
    {[status_code |-> HTTP_OK, body |-> b] : b \in SubmitBodies(endpoint)}
    \cup {[status_code |-> c, body |-> [data |-> [task_id |-> t]]] :
             c \in ErrorCodes, t \in TaskIds(endpoint)}

\* {"data": {"status": ..., "generated": [...]}} with any of the keys missing
StatusData ==
    {EmptyDict}
    \cup {[status |-> s] : s \in Statuses}
    \cup {[generated |-> g] : g \in GeneratedLists}
    \cup {[status |-> s, generated |-> g] : s \in Statuses, g \in GeneratedLists}
StatusBodies == {EmptyDict} \cup {[data |-> d] : d \in StatusData}
StatusResponses ==
    {[status_code |-> HTTP_OK, body |-> b] : b \in StatusBodies}
    \cup {[status_code |-> c, body |-> b] : c \in ErrorCodes, b \in {[data |-> [status |-> "COMPLETED", generated |-> <<"u1">>]]}}

\* the body of a download, as the chunks r.iter_content yields (b"" included)
ChunkedBodies ==
    { <<>>,
      << <<"a">> >>,
      << <<"a">>, <<"b">> >>,
      << <<"b">>, <<>>, <<"a">> >> }
DownloadResponses ==
    {[status_code |-> HTTP_OK, body |-> EmptyDict, chunks |-> b] : b \in ChunkedBodies}
    \cup {[status_code |-> 404, body |-> EmptyDict, chunks |-> <<<<"a">>>>]}

----------------------------------------------------------------------------
(* Exceptions *)

\* raise Exception(message) instead of the class of the module
PlainException(message) == [cls |-> "Exception", message |-> message]

FreepikGeminiError(message) == [cls |-> "FreepikGeminiError", message |-> message]

NoExc == [cls |-> None]

----------------------------------------------------------------------------
(* Frames *)

NoOutcome == [kind |-> "running"]
NoResponse == [status_code |-> 0, body |-> EmptyDict]

InitFrame(t, p) ==
    [ pc |-> "create_gemini",
      \* the function of app.py or freepik_gemini.py that makes the calls
      entry |-> "two_step_gemini_image",
      \* arguments of two_step_gemini_image
      timeout |-> t, poll_interval |-> p,
      \* the clock as this thread reads it
      now |-> 0,
      \* locals of two_step_gemini_image
      task_id_1 |-> None, generated_urls_1 |-> <<>>, base_image_url |-> None,
      task_id_2 |-> None, video_url |-> None,
      \* locals of the polling call in progress
      task_id |-> None, start |-> 0, status |-> None, data |-> EmptyDict,
      \* locals of the download in progress: r.iter_content, not yet consumed
      stream |-> <<>>,
      \* the value the last finished _download_file returned
      ret |-> <<>>,
      \* the last HTTP response received
      resp |-> NoResponse,
      \* the exception in flight and the sub-step that raised it
      exc |-> NoExc, failed_step |-> None,
      \* how the driver ended, as its caller sees it
      outcome |-> NoOutcome,
      \* observation: the sub-steps called, the HTTP requests sent
      calls |-> <<>>, http |-> <<>> ]

Runs == DOMAIN run

\* the runs of Spec: one call of two_step_gemini_image
PipelineRuns == {"run1"}

\* the requests of the HTTP routes: each has a handler thread and at most
\* one run of the pipeline code, both named after the request
Handlers == {"h1", "h2"}

\* The answers of the remote service explored for a run: every answer for
\* the runs of Spec, for the runs behind the HTTP routes one answer of each
\* kind (accepted or refused, output or none, a body or a refusal).
RouteSubmitResponses(endpoint) ==
    {[status_code |-> HTTP_OK, body |-> [data |-> [task_id |-> t]]] : t \in TaskIds(endpoint)}
    \cup {[status_code |-> c, body |-> EmptyDict] : c \in ErrorCodes}
RouteStatusResponses ==
    {[status_code |-> HTTP_OK, body |-> [data |-> [status |-> "IN_PROGRESS", generated |-> <<>>]]],
     [status_code |-> HTTP_OK, body |-> [data |-> [status |-> "COMPLETED", generated |-> <<"u1">>]]]}
RouteDownloadResponses ==
    {[status_code |-> HTTP_OK, body |-> EmptyDict, chunks |-> << <<"a">> >>],
     [status_code |-> 404, body |-> EmptyDict, chunks |-> <<>>]}

SubmitResponsesFor(r, endpoint) ==
    IF r \in PipelineRuns THEN SubmitResponses(endpoint) ELSE RouteSubmitResponses(endpoint)
StatusResponsesFor(r) ==
    IF r \in PipelineRuns THEN StatusResponses ELSE RouteStatusResponses
DownloadResponsesFor(r) ==
    IF r \in PipelineRuns THEN DownloadResponses ELSE RouteDownloadResponses

\* a driver that submits the video task right after the image task
DriverNextVideoFirst(pc) ==
    CASE pc = "create_gemini"  -> "create_video"
      [] pc = "create_video"   -> "wait_video"
      [] pc = "wait_video"     -> "wait_gemini"
      [] pc = "wait_gemini"    -> "download_image"
      [] pc = "download_image" -> "download_video"
      [] pc = "download_video" -> "return"

\* a driver that returns once the video poll has returned
DriverNextSkipsVideoDownload(pc) ==
    CASE pc = "create_gemini"  -> "wait_gemini"
      [] pc = "wait_gemini"    -> "download_image"
      [] pc = "download_image" -> "create_video"
      [] pc = "create_video"   -> "wait_video"
      [] pc = "wait_video"     -> "return"
      [] pc = "download_video" -> "return"

\* two_step_gemini_image, lines 160-171: the position that follows each one
DriverNext(pc) ==
    CASE pc = "create_gemini"  -> "wait_gemini"
      [] pc = "wait_gemini"    -> "download_image"
      [] pc = "download_image" -> "create_video"
      [] pc = "create_video"   -> "wait_video"
      [] pc = "wait_video"     -> "download_video"
      [] pc = "download_video" -> "return"

\* raise e inside sub-step `step`
Raise(f, step, e) == [f EXCEPT !.pc = "unwind", !.exc = e, !.failed_step = step]

Call(f, fn, args) == Append(f.calls, [fn |-> fn, args |-> args])
Request(f, method, url, payload) ==
    Append(f.http, [method |-> method, url |-> url, json |-> payload])

----------------------------------------------------------------------------
(* _create_gemini_task *)

\* the frame after _create_gemini_task(api_key, prompt) got response resp
CreateGeminiTaskResult(f, resp) ==
    LET data == DictGet(resp.body, "data", EmptyDict)
        task_id == DictGet(data, "task_id", None)
    IN  IF resp.status_code # HTTP_OK
        THEN Raise(f, "_create_gemini_task",
                   FreepikGeminiError([fmt |-> "Error creating Gemini task",
                                       status_code |-> resp.status_code, text |-> resp.body]))
        ELSE IF ~TruthyStr(task_id)
        THEN Raise(f, "_create_gemini_task",
                   FreepikGeminiError([fmt |-> "Missing task_id in response", text |-> resp.body]))
        ELSE [f EXCEPT !.task_id_1 = task_id, !.pc = DriverNext("create_gemini")]

CreateGeminiTask(r) ==
    /\ run[r].pc = "create_gemini"
    /\ \E resp \in SubmitResponsesFor(r, FREEPIK_GEMINI_ENDPOINT) :
         LET f == [run[r] EXCEPT
                     !.calls = Call(run[r], "_create_gemini_task",
                                    [api_key |-> ApiKey, prompt |-> BasePrompt]),
                     !.http = Request(run[r], "POST", Url(FREEPIK_GEMINI_ENDPOINT, ""),
                                      [prompt |-> BasePrompt]),
                     !.resp = resp]
         IN  run' = [run EXCEPT ![r] = CreateGeminiTaskResult(f, resp)]
    /\ UNCHANGED <<files, dirs, appvars>>

----------------------------------------------------------------------------
(* _wait_for_gemini_task *)

\* a deadline check that allows one time unit too many
DeadlineExceededLate(now, start, timeout) == now - start > timeout + 1

\* a deadline check that fires when the elapsed time equals the timeout
DeadlineExceededEarly(now, start, timeout) == now - start >= timeout

\* time.time() - start > timeout
DeadlineExceeded(now, start, timeout) == now - start > timeout

\* data.get("generated") or []
GeneratedOf(data) == DictGet(data, "generated", <<>>)

\* the locals of a polling call, dropped when it returns or raises
EndPoll(f) == [f EXCEPT !.task_id = None, !.start = 0, !.status = None, !.data = EmptyDict]

GeminiTimeoutMessage(task_id, status, data) ==
    [fmt |-> "Timeout waiting for task", task_id |-> task_id, status |-> status, data |-> data]

\* the call: headers, url, start = time.time()
WaitGeminiStart(r) ==
    /\ run[r].pc = "wait_gemini"
    /\ run' = [run EXCEPT ![r] =
                 [@ EXCEPT !.calls = Call(run[r], "_wait_for_gemini_task",
                                          [api_key |-> ApiKey, task_id |-> run[r].task_id_1,
                                           timeout |-> run[r].timeout,
                                           poll_interval |-> run[r].poll_interval]),
                           !.task_id = run[r].task_id_1,
                           !.start = run[r].now,
                           !.pc = "gemini_query"]]
    /\ UNCHANGED <<files, dirs, appvars>>

\* a loop that takes the output only of a task whose status reads COMPLETED
WaitGeminiIterationStatusGated(f, resp) ==
    LET data == DictGet(resp.body, "data", EmptyDict)
        status == DictGet(data, "status", None)
        generated == GeneratedOf(data)
    IN  IF resp.status_code # HTTP_OK
        THEN Raise(EndPoll(f), "_wait_for_gemini_task",
                   FreepikGeminiError([fmt |-> "Error getting Gemini task status",
                                       status_code |-> resp.status_code, text |-> resp.body]))
        ELSE IF status = "COMPLETED" /\ TruthyList(generated)
        THEN [EndPoll(f) EXCEPT !.generated_urls_1 = generated,
                                !.base_image_url = generated[1],
                                !.pc = DriverNext("wait_gemini")]
        ELSE IF DeadlineExceeded(f.now, f.start, f.timeout)
        THEN Raise(EndPoll(f), "_wait_for_gemini_task",
                   FreepikGeminiError(GeminiTimeoutMessage(f.task_id, status, data)))
        ELSE [f EXCEPT !.status = status, !.data = data, !.pc = "gemini_sleep"]

\* a loop that gives up as soon as the status reads FAILED
WaitGeminiIterationFailedEnds(f, resp) ==
    LET data == DictGet(resp.body, "data", EmptyDict)
        status == DictGet(data, "status", None)
        generated == GeneratedOf(data)
    IN  IF resp.status_code # HTTP_OK
        THEN Raise(EndPoll(f), "_wait_for_gemini_task",
                   FreepikGeminiError([fmt |-> "Error getting Gemini task status",
                                       status_code |-> resp.status_code, text |-> resp.body]))
        ELSE IF TruthyList(generated)
        THEN [EndPoll(f) EXCEPT !.generated_urls_1 = generated,
                                !.base_image_url = generated[1],
                                !.pc = DriverNext("wait_gemini")]
        ELSE IF status = "FAILED" \/ DeadlineExceeded(f.now, f.start, f.timeout)
        THEN Raise(EndPoll(f), "_wait_for_gemini_task",
                   FreepikGeminiError(GeminiTimeoutMessage(f.task_id, status, data)))
        ELSE [f EXCEPT !.status = status, !.data = data, !.pc = "gemini_sleep"]

\* a loop that takes a non-success response for "not ready yet" and tries again
WaitGeminiIterationRetries(f, resp) ==
    LET data == DictGet(resp.body, "data", EmptyDict)
        status == DictGet(data, "status", None)
        generated == GeneratedOf(data)
    IN  IF resp.status_code = HTTP_OK /\ TruthyList(generated)
        THEN [EndPoll(f) EXCEPT !.generated_urls_1 = generated,
                                !.base_image_url = generated[1],
                                !.pc = DriverNext("wait_gemini")]
        ELSE IF DeadlineExceeded(f.now, f.start, f.timeout)
        THEN Raise(EndPoll(f), "_wait_for_gemini_task",
                   FreepikGeminiError(GeminiTimeoutMessage(f.task_id, status, data)))
        ELSE [f EXCEPT !.status = status, !.data = data, !.pc = "gemini_sleep"]

\* a loop that looks at the deadline before it looks at the output
WaitGeminiIterationDeadlineFirst(f, resp) ==
    LET data == DictGet(resp.body, "data", EmptyDict)
        status == DictGet(data, "status", None)
        generated == GeneratedOf(data)
    IN  IF resp.status_code # HTTP_OK
        THEN Raise(EndPoll(f), "_wait_for_gemini_task",
                   FreepikGeminiError([fmt |-> "Error getting Gemini task status",
                                       status_code |-> resp.status_code, text |-> resp.body]))
        ELSE IF DeadlineExceeded(f.now, f.start, f.timeout)
        THEN Raise(EndPoll(f), "_wait_for_gemini_task",
                   FreepikGeminiError(GeminiTimeoutMessage(f.task_id, status, data)))
        ELSE IF TruthyList(generated)
        THEN [EndPoll(f) EXCEPT !.generated_urls_1 = generated,
                                !.base_image_url = generated[1],
                                !.pc = DriverNext("wait_gemini")]
        ELSE [f EXCEPT !.status = status, !.data = data, !.pc = "gemini_sleep"]

\* one iteration of the loop up to the sleep, on response resp
WaitGeminiIteration(f, resp) ==
    LET data == DictGet(resp.body, "data", EmptyDict)
        status == DictGet(data, "status", None)
        generated == GeneratedOf(data)
    IN  IF resp.status_code # HTTP_OK
        THEN Raise(EndPoll(f), "_wait_for_gemini_task",
                   FreepikGeminiError([fmt |-> "Error getting Gemini task status",
                                       status_code |-> resp.status_code, text |-> resp.body]))
        ELSE IF TruthyList(generated)
        THEN \* return generated; base_image_url = generated_urls_1[0]
             [EndPoll(f) EXCEPT !.generated_urls_1 = generated,
                                !.base_image_url = generated[1],
                                !.pc = DriverNext("wait_gemini")]
        ELSE IF DeadlineExceeded(f.now, f.start, f.timeout)
        THEN Raise(EndPoll(f), "_wait_for_gemini_task",
                   FreepikGeminiError(GeminiTimeoutMessage(f.task_id, status, data)))
        ELSE [f EXCEPT !.status = status, !.data = data, !.pc = "gemini_sleep"]

WaitGeminiQuery(r) ==
    /\ run[r].pc = "gemini_query"
    /\ \E resp \in StatusResponsesFor(r) :
         LET f == [run[r] EXCEPT
                     !.http = Request(run[r], "GET",
                                      TaskUrl(FREEPIK_GEMINI_ENDPOINT, run[r].task_id), EmptyDict),
                     !.resp = resp]
         IN  run' = [run EXCEPT ![r] = WaitGeminiIteration(f, resp)]
    /\ UNCHANGED <<files, dirs, appvars>>

\* time.sleep(poll_interval)
WaitGeminiSleep(r) ==
    /\ run[r].pc = "gemini_sleep"
    /\ run' = [run EXCEPT ![r] =
                 [@ EXCEPT !.now = @ + run[r].poll_interval, !.pc = "gemini_query"]]
    /\ UNCHANGED <<files, dirs, appvars>>

----------------------------------------------------------------------------
(* _download_file *)

\* Path(output_path).parent
Parent(path) == path[1]

\* open(output_path, "wb"): the file exists and is empty
OpenWb(fs, path) == [p \in DOMAIN fs \cup {path} |-> IF p = path THEN <<>> ELSE fs[p]]

\* a write that puts the chunk at the start of the file
WriteAtStart(fs, path, chunk) == [fs EXCEPT ![path] = chunk \o @]

\* f.write(chunk)
Write(fs, path, chunk) == [fs EXCEPT ![path] = @ \o chunk]

\* a _download_file that makes the directory and opens the file before it
\* looks at the status code
DownloadGetOpensFirst(r, at, writing, url, output_path) ==
    /\ run[r].pc = at
    /\ \E resp \in DownloadResponsesFor(r) :
         LET f == [run[r] EXCEPT
                     !.calls = Call(run[r], "_download_file",
                                    [url |-> url, output_path |-> output_path]),
                     !.http = Request(run[r], "GET", Url(url, ""), EmptyDict),
                     !.resp = resp]
         IN  /\ dirs' = dirs \cup {Parent(output_path)}
             /\ files' = OpenWb(files, output_path)
             /\ UNCHANGED appvars
             /\ run' = [run EXCEPT ![r] =
                   IF resp.status_code # HTTP_OK
                   THEN Raise(f, "_download_file",
                              FreepikGeminiError([fmt |-> "Error downloading file",
                                                  status_code |-> resp.status_code,
                                                  text |-> resp.body]))
                   ELSE [f EXCEPT !.stream = resp.chunks, !.pc = writing]]

\* requests.get(url, stream=True), the status check, mkdir and open of
\* _download_file(url, output_path), called at position `at`; `writing` is
\* the position inside its with statement
DownloadGet(r, at, writing, url, output_path) ==
    /\ run[r].pc = at
    /\ \E resp \in DownloadResponsesFor(r) :
         LET f == [run[r] EXCEPT
                     !.calls = Call(run[r], "_download_file",
                                    [url |-> url, output_path |-> output_path]),
                     !.http = Request(run[r], "GET", Url(url, ""), EmptyDict),
                     !.resp = resp]
         IN  IF resp.status_code # HTTP_OK
             THEN /\ run' = [run EXCEPT ![r] =
                        Raise(f, "_download_file",
                              FreepikGeminiError([fmt |-> "Error downloading file",
                                                  status_code |-> resp.status_code,
                                                  text |-> resp.body]))]
                  /\ UNCHANGED <<files, dirs, appvars>>
             ELSE /\ dirs' = dirs \cup {Parent(output_path)}
                  /\ files' = OpenWb(files, output_path)
                  /\ run' = [run EXCEPT ![r] =
                        [f EXCEPT !.stream = resp.chunks, !.pc = writing]]
                  /\ UNCHANGED appvars

\* one turn of `for chunk in r.iter_content(...)`: the next chunk arrives
DownloadChunk(r, writing, output_path) ==
    /\ run[r].pc = writing
    /\ run[r].stream # <<>>
    /\ LET chunk == Head(run[r].stream)
       IN  files' = IF Len(chunk) > 0 THEN Write(files, output_path, chunk) ELSE files
    /\ run' = [run EXCEPT ![r] = [@ EXCEPT !.stream = Tail(@)]]
    /\ UNCHANGED <<dirs, appvars>>

\* a _download_file that removes the file when the stream breaks
DownloadBrokenRemovesFile(r, writing) ==
    /\ run[r].pc = writing
    /\ run' = [run EXCEPT ![r] =
                 Raise([@ EXCEPT !.stream = <<>>], "_download_file",
                       [cls |-> "ChunkedEncodingError",
                        message |-> [fmt |-> "Connection broken"]])]
    /\ files' = [p \in DOMAIN files \ {run[r].calls[Len(run[r].calls)].args.output_path}
                   |-> files[p]]
    /\ UNCHANGED <<dirs, appvars>>

\* r.iter_content raises: the connection broke while the body was streamed;
\* the with statement closes the file and the exception leaves _download_file
DownloadBroken(r, writing) ==
    /\ run[r].pc = writing
    /\ run' = [run EXCEPT ![r] =
                 Raise([@ EXCEPT !.stream = <<>>], "_download_file",
                       [cls |-> "ChunkedEncodingError",
                        message |-> [fmt |-> "Connection broken"]])]
    /\ UNCHANGED <<files, dirs, appvars>>

\* the body is exhausted: return output_path
DownloadReturn(r, writing, next) ==
    /\ run[r].pc = writing
    /\ run[r].stream = <<>>
    /\ run' = [run EXCEPT ![r] =
                 [@ EXCEPT !.ret = run[r].calls[Len(run[r].calls)].args.output_path,
                           !.pc = next]]
    /\ UNCHANGED <<files, dirs, appvars>>

----------------------------------------------------------------------------
(* _create_video_task *)

CreateVideoTaskResult(f, resp) ==
    LET data == DictGet(resp.body, "data", EmptyDict)
        task_id == DictGet(data, "task_id", None)
    IN  IF resp.status_code # HTTP_OK
        THEN Raise(f, "_create_video_task",
                   FreepikGeminiError([fmt |-> "Error creating video task",
                                       status_code |-> resp.status_code, text |-> resp.body]))
        ELSE IF ~TruthyStr(task_id)
        THEN Raise(f, "_create_video_task",
                   FreepikGeminiError([fmt |-> "Missing task_id in video response",
                                       text |-> resp.body]))
        ELSE [f EXCEPT !.task_id_2 = task_id, !.pc = DriverNext("create_video")]

\* a driver that hands the last generated URL to the video task
VideoImageUrlLast(f) == f.generated_urls_1[Len(f.generated_urls_1)]

\* the image_url argument of the call at line 167
VideoImageUrl(f) == f.base_image_url

CreateVideoTask(r) ==
    /\ run[r].pc = "create_video"
    /\ \E resp \in SubmitResponsesFor(r, FREEPIK_VIDEO_ENDPOINT) :
         LET f == [run[r] EXCEPT
                     !.calls = Call(run[r], "_create_video_task",
                                    [api_key |-> ApiKey, image_url |-> VideoImageUrl(run[r]),
                                     prompt |-> AdPrompt]),
                     !.http = Request(run[r], "POST", Url(FREEPIK_VIDEO_ENDPOINT, ""),
                                      [image_url |-> VideoImageUrl(run[r]), prompt |-> AdPrompt,
                                       duration |-> "10"]),
                     !.resp = resp]
         IN  run' = [run EXCEPT ![r] = CreateVideoTaskResult(f, resp)]
    /\ UNCHANGED <<files, dirs, appvars>>

----------------------------------------------------------------------------
(* _wait_for_video_task *)

VideoTimeoutMessage(task_id, status, data) ==
    [fmt |-> "Timeout waiting for video", task_id |-> task_id, status |-> status]

WaitVideoStart(r) ==
    /\ run[r].pc = "wait_video"
    /\ run' = [run EXCEPT ![r] =
                 [@ EXCEPT !.calls = Call(run[r], "_wait_for_video_task",
                                          [api_key |-> ApiKey, task_id |-> run[r].task_id_2,
                                           timeout |-> run[r].timeout,
                                           poll_interval |-> run[r].poll_interval]),
                           !.task_id = run[r].task_id_2,
                           !.start = run[r].now,
                           !.pc = "video_query"]]
    /\ UNCHANGED <<files, dirs, appvars>>

\* a video poll that returns the last URL of the list
WaitVideoIterationReturnsLast(f, resp) ==
    LET data == DictGet(resp.body, "data", EmptyDict)
        status == DictGet(data, "status", None)
        generated == GeneratedOf(data)
    IN  IF resp.status_code # HTTP_OK
        THEN Raise(EndPoll(f), "_wait_for_video_task",
                   FreepikGeminiError([fmt |-> "Error polling video task",
                                       status_code |-> resp.status_code, text |-> resp.body]))
        ELSE IF TruthyList(generated)
        THEN [EndPoll(f) EXCEPT !.video_url = generated[Len(generated)],
                                !.pc = DriverNext("wait_video")]
        ELSE IF DeadlineExceeded(f.now, f.start, f.timeout)
        THEN Raise(EndPoll(f), "_wait_for_video_task",
                   FreepikGeminiError(VideoTimeoutMessage(f.task_id, status, data)))
        ELSE [f EXCEPT !.status = status, !.data = data, !.pc = "video_sleep"]

WaitVideoIteration(f, resp) ==
    LET data == DictGet(resp.body, "data", EmptyDict)
        status == DictGet(data, "status", None)
        generated == GeneratedOf(data)
    IN  IF resp.status_code # HTTP_OK
        THEN Raise(EndPoll(f), "_wait_for_video_task",
                   FreepikGeminiError([fmt |-> "Error polling video task",
                                       status_code |-> resp.status_code, text |-> resp.body]))
        ELSE IF TruthyList(generated)
        THEN \* return generated[0]
             [EndPoll(f) EXCEPT !.video_url = generated[1], !.pc = DriverNext("wait_video")]
        ELSE IF DeadlineExceeded(f.now, f.start, f.timeout)
        THEN Raise(EndPoll(f), "_wait_for_video_task",
                   FreepikGeminiError(VideoTimeoutMessage(f.task_id, status, data)))
        ELSE [f EXCEPT !.status = status, !.data = data, !.pc = "video_sleep"]

WaitVideoQuery(r) ==
    /\ run[r].pc = "video_query"
    /\ \E resp \in StatusResponsesFor(r) :
         LET f == [run[r] EXCEPT
                     !.http = Request(run[r], "GET",
                                      TaskUrl(FREEPIK_VIDEO_ENDPOINT, run[r].task_id), EmptyDict),
                     !.resp = resp]
         IN  run' = [run EXCEPT ![r] = WaitVideoIteration(f, resp)]
    /\ UNCHANGED <<files, dirs, appvars>>

WaitVideoSleep(r) ==
    /\ run[r].pc = "video_sleep"
    /\ run' = [run EXCEPT ![r] =
                 [@ EXCEPT !.now = @ + run[r].poll_interval, !.pc = "video_query"]]
    /\ UNCHANGED <<files, dirs, appvars>>

----------------------------------------------------------------------------
(* two_step_gemini_image *)

\* line 164: _download_file(base_image_url, base_image_path)
DownloadImageGet(r) ==
    DownloadGet(r, "download_image", "write_image", run[r].base_image_url, BaseImagePath(r))
DownloadImageChunk(r) == DownloadChunk(r, "write_image", BaseImagePath(r))
DownloadImageBroken(r) == DownloadBroken(r, "write_image")
DownloadImageReturn(r) ==
    DownloadReturn(r, "write_image",
                   IF run[r].entry = "generate_image"
                   THEN "image_downloaded" \* app.py line 74: back in generate_image
                   ELSE DriverNext("download_image"))

\* line 169: _download_file(video_url, video_output_path)
DownloadVideoGet(r) ==
    DownloadGet(r, "download_video", "write_video", run[r].video_url, VideoOutputPath(r))
DownloadVideoChunk(r) == DownloadChunk(r, "write_video", VideoOutputPath(r))
DownloadVideoBroken(r) == DownloadBroken(r, "write_video")
DownloadVideoReturn(r) == DownloadReturn(r, "write_video", DriverNext("download_video"))

\* line 171: return base_image_path, video_output_path
DriverReturnValue(r) == <<BaseImagePath(r), VideoOutputPath(r)>>

DriverReturn(r) ==
    /\ run[r].pc = "return"
    /\ run' = [run EXCEPT ![r] =
                 [@ EXCEPT !.outcome = [kind |-> "returned", value |-> DriverReturnValue(r)],
                           !.pc = "done"]]
    /\ UNCHANGED <<files, dirs, appvars>>

\* a driver that goes on to the video stage when the image download fails
DriverOnExceptionSkipsImage(f) ==
    IF f.failed_step = "_download_file" /\ f.task_id_2 = None
    THEN [f EXCEPT !.exc = NoExc, !.failed_step = None, !.stream = <<>>,
                   !.pc = "create_video"]
    ELSE [f EXCEPT !.outcome = [kind |-> "raised", exc |-> f.exc], !.pc = "done"]

\* an exception raised by a sub-step reaches the driver: lines 160-171 hold no
\* try statement, so it leaves two_step_gemini_image as it is
DriverOnException(f) ==
    [f EXCEPT !.outcome = [kind |-> "raised", exc |-> f.exc], !.pc = "done"]

\* a driver that deletes its output files when a sub-step fails
DriverUnwindRollback(r) ==
    /\ run[r].pc = "unwind"
    /\ run' = [run EXCEPT ![r] = DriverOnException(run[r])]
    /\ files' = [p \in DOMAIN files \ {BaseImagePath(r), VideoOutputPath(r)} |-> files[p]]
    /\ UNCHANGED <<dirs, appvars>>

DriverUnwind(r) ==
    /\ run[r].pc = "unwind"
    /\ run' = [run EXCEPT ![r] = DriverOnException(run[r])]
    /\ UNCHANGED <<files, dirs, appvars>>

----------------------------------------------------------------------------
(* app.py: requests and their validation *)

\* request.json, the JSON value of the body: null or an object
JsonNull == [type |-> "null", value |-> EmptyDict]
JsonObject(d) == [type |-> "object", value |-> d]

\* the prompt fields each generation route requires
RequiredFields(route) ==
    IF route = "generate_image" THEN {"prompt"} ELSE {"base_prompt", "ad_prompt"}

\* the request bodies explored: null, {}, a prompt missing, a prompt empty,
\* and every prompt given
Bodies(route) ==
    IF route = "generate_image"
    THEN {JsonNull, JsonObject(EmptyDict), JsonObject([prompt |-> ""]),
          JsonObject([prompt |-> BasePrompt])}
    ELSE {JsonNull, JsonObject(EmptyDict), JsonObject([ad_prompt |-> AdPrompt]),
          JsonObject([base_prompt |-> BasePrompt, ad_prompt |-> ""]),
          JsonObject([base_prompt |-> BasePrompt, ad_prompt |-> AdPrompt])}

\* request.headers.get('X-Freepik-API-Key') and os.environ.get('FREEPIK_API_KEY')
HeaderKeys == {None, ApiKey}
EnvironKeys == {None, ApiKey}

Requests(route) ==
    {[route |-> route, header |-> k, json |-> b] : k \in HeaderKeys, b \in Bodies(route)}
NoRequest == [route |-> None, header |-> None, json |-> JsonNull]

GetApiKey(req) == IF ~TruthyStr(req.header) THEN environ ELSE req.header

\* jsonify(body), code
JsonResponse(code, body) == [status_code |-> code, body |-> body]

\* str(e)
Str(e) == e.message

\* data.get(...) when request.json is None
AttributeErrorNoneGet ==
    [cls |-> "AttributeError",
     message |-> [fmt |-> "'NoneType' object has no attribute 'get'"]]

\* except FreepikGeminiError / except Exception of a route
ErrorResponse(e) ==
    IF e.cls = "FreepikGeminiError"
    THEN JsonResponse(500, [error |-> Str(e)])
    ELSE JsonResponse(500, [error |-> [fmt |-> "Unexpected error", e |-> Str(e)]])

RequiredMessage(route) ==
    IF route = "generate_image"
    THEN [fmt |-> "prompt is required"]
    ELSE [fmt |-> "base_prompt and ad_prompt are required"]

\* the checks at the head of a generation route: the response that ends the
\* request there, or NoResponse when the request goes on
Validate(route, req) ==
    IF ~TruthyStr(GetApiKey(req))
    THEN JsonResponse(401, [error |-> [fmt |-> "API key required"]])
    ELSE IF req.json.type = "null"
    THEN ErrorResponse(AttributeErrorNoneGet)
    ELSE IF \E k \in RequiredFields(route) : ~TruthyStr(DictGet(req.json.value, k, None))
    THEN JsonResponse(400, [error |-> RequiredMessage(route)])
    ELSE NoResponse

----------------------------------------------------------------------------
(* app.py: handler threads *)

InitHandler ==
    [ pc |-> "listening",
      request |-> NoRequest,
      \* locals of the route function
      api_key |-> None, task_id |-> None,
      \* what the caller received
      response |-> NoResponse ]

\* timeout=180 / 120 and poll_interval=2.0, the defaults the routes run the
\* pipeline with, on the clock of the model
DefaultTimeout == MaxTimeout
DefaultPollInterval == MaxPollInterval

NotCalled == [InitFrame(DefaultTimeout, DefaultPollInterval) EXCEPT !.pc = "not_called"]

\* f"/api/download/{filename}"
DownloadLink(path) == [fmt |-> "/api/download/", filename |-> path[2]]

\* d[k] = v
Store(d, k, v) == [x \in DOMAIN d \cup {k} |-> IF x = k THEN v ELSE d[x]]

\* the threads that may touch task_status
HandlerThread(h) == [thread |-> "handler", id |-> h]
WorkerThread(h) == [thread |-> "worker", id |-> h]

\* the record of a write to task_status[k] by thread t: op is "setitem" for
\* task_status[k] = value, "setfield" for task_status[k][field] = ...; value
\* is what the map holds under k after the write
Written(k, t, op, value) ==
    Store(writes, k,
          (IF k \in DOMAIN writes THEN writes[k] ELSE <<>>)
              \o <<[by |-> t, op |-> op, value |-> value]>>)

\* the head of a generation route up to its first call: lines 54-63,
\* 103-114, 158-167
Begin(h, route) ==
    /\ handlers[h].pc = "listening"
    /\ \E req \in Requests(route) :
         LET resp == Validate(route, req)
         IN  IF resp # NoResponse
             THEN /\ handlers' = [handlers EXCEPT ![h] =
                        [@ EXCEPT !.request = req, !.response = resp, !.pc = "responded"]]
                  /\ UNCHANGED run
             ELSE /\ handlers' = [handlers EXCEPT ![h] =
                        [@ EXCEPT !.request = req, !.api_key = GetApiKey(req),
                                  !.pc = IF route = "create_video_ad_async"
                                         THEN "register" ELSE "running"]]
                  /\ run' = IF route = "create_video_ad_async"
                            THEN run
                            ELSE [run EXCEPT ![h] =
                                    [@ EXCEPT !.pc = "create_gemini",
                                              !.entry = IF route = "generate_image"
                                                        THEN "generate_image"
                                                        ELSE "two_step_gemini_image"]]
    /\ UNCHANGED <<files, dirs, environ, worker, task_status, writes, lookup, agent>>

GenerateImageBegin(h) == Begin(h, "generate_image")
CreateVideoAdBegin(h) == Begin(h, "create_video_ad")
CreateVideoAdAsyncBegin(h) == Begin(h, "create_video_ad_async")

\* generate_image, lines 76-81
GenerateImageRespond(h) ==
    /\ handlers[h].pc = "running"
    /\ run[h].pc = "image_downloaded"
    /\ handlers' = [handlers EXCEPT ![h] =
         [@ EXCEPT !.response =
                      JsonResponse(200, [success |-> TRUE,
                                         image_url |-> run[h].generated_urls_1[1],
                                         local_path |-> DownloadLink(BaseImagePath(h)),
                                         all_urls |-> run[h].generated_urls_1]),
                   !.pc = "responded"]]
    /\ run' = [run EXCEPT ![h] =
                 [@ EXCEPT !.outcome = [kind |-> "returned", value |-> run[h].ret],
                           !.pc = "done"]]
    /\ UNCHANGED <<files, dirs, environ, worker, task_status, writes, lookup, agent>>

\* create_video_ad, lines 133-138
CreateVideoAdRespond(h) ==
    /\ handlers[h].pc = "running"
    /\ run[h].pc = "done"
    /\ run[h].outcome.kind = "returned"
    /\ handlers' = [handlers EXCEPT ![h] =
         [@ EXCEPT !.response =
                      JsonResponse(200, [success |-> TRUE,
                                         base_image |-> DownloadLink(BaseImagePath(h)),
                                         video |-> DownloadLink(VideoOutputPath(h)),
                                         message |-> "Video ad created successfully"]),
                   !.pc = "responded"]]
    /\ UNCHANGED <<run, files, dirs, environ, worker, task_status, writes, lookup, agent>>

\* except clauses that answer 500 with a fixed text
HandlerExceptHidesMessage(h) ==
    /\ handlers[h].pc = "running"
    /\ run[h].pc = "done"
    /\ run[h].outcome.kind = "raised"
    /\ handlers' = [handlers EXCEPT ![h] =
         [@ EXCEPT !.response = JsonResponse(500, [error |-> [fmt |-> "Internal server error"]]),
                   !.pc = "responded"]]
    /\ UNCHANGED <<run, files, dirs, environ, worker, task_status, writes, lookup, agent>>

\* the except clauses of generate_image and create_video_ad, lines 83-86
\* and 140-143
HandlerExcept(h) ==
    /\ handlers[h].pc = "running"
    /\ run[h].pc = "done"
    /\ run[h].outcome.kind = "raised"
    /\ handlers' = [handlers EXCEPT ![h] =
         [@ EXCEPT !.response = ErrorResponse(run[h].outcome.exc), !.pc = "responded"]]
    /\ UNCHANGED <<run, files, dirs, environ, worker, task_status, writes, lookup, agent>>

----------------------------------------------------------------------------
(* app.py: create_video_ad_async, background_task and get_task_status *)

\* lines 170-171: task_id = str(uuid.uuid4()), a value no other request
\* got (here the name of the request), and the first entry of the map
AsyncRegister(h) ==
    /\ handlers[h].pc = "register"
    /\ LET value == [status |-> "processing", progress |-> "Starting..."]
       IN  /\ task_status' = Store(task_status, h, value)
           /\ writes' = Written(h, HandlerThread(h), "setitem", value)
    /\ handlers' = [handlers EXCEPT ![h] = [@ EXCEPT !.task_id = h, !.pc = "start_thread"]]
    /\ UNCHANGED <<run, files, dirs, environ, worker, lookup, agent>>

\* lines 201-202: threading.Thread(target=background_task).start()
AsyncStartThread(h) ==
    /\ handlers[h].pc = "start_thread"
    /\ worker' = [worker EXCEPT ![h] = "started"]
    /\ handlers' = [handlers EXCEPT ![h] = [@ EXCEPT !.pc = "respond"]]
    /\ UNCHANGED <<run, files, dirs, environ, task_status, writes, lookup, agent>>

Accepted(task_id) ==
    JsonResponse(202, [task_id |-> task_id,
                       status_url |-> [fmt |-> "/api/task-status/", task_id |-> task_id]])

\* a route that writes the entry once more when it answers
AsyncRespondRewrites(h) ==
    /\ handlers[h].pc = "respond"
    /\ LET value == [status |-> "processing", progress |-> "Starting..."]
       IN  /\ task_status' = Store(task_status, h, value)
           /\ writes' = Written(h, HandlerThread(h), "setitem", value)
    /\ handlers' = [handlers EXCEPT ![h] =
         [@ EXCEPT !.response = Accepted(handlers[h].task_id), !.pc = "responded"]]
    /\ UNCHANGED <<run, files, dirs, environ, worker, lookup, agent>>

\* a route that joins its thread before it answers
AsyncRespondAfterJoin(h) ==
    /\ handlers[h].pc = "respond"
    /\ worker[h] = "finished"
    /\ handlers' = [handlers EXCEPT ![h] =
         [@ EXCEPT !.response = Accepted(handlers[h].task_id), !.pc = "responded"]]
    /\ UNCHANGED <<run, files, dirs, environ, worker, task_status, writes, lookup, agent>>

\* lines 204-207: return jsonify({task_id, status_url}), 202
AsyncRespond(h) ==
    /\ handlers[h].pc = "respond"
    /\ handlers' = [handlers EXCEPT ![h] =
         [@ EXCEPT !.response = Accepted(handlers[h].task_id), !.pc = "responded"]]
    /\ UNCHANGED <<run, files, dirs, environ, worker, task_status, writes, lookup, agent>>

\* background_task, lines 182-183: the progress field of the stored dict is
\* set in place, then two_step_gemini_image is called
WorkerProgress(h) ==
    /\ worker[h] = "started"
    /\ LET value == [task_status[h] EXCEPT !.progress = "Generating base image..."]
       IN  /\ task_status' = [task_status EXCEPT ![h] = value]
           /\ writes' = Written(h, WorkerThread(h), "setfield", value)
    /\ worker' = [worker EXCEPT ![h] = "running"]
    /\ run' = [run EXCEPT ![h] = [@ EXCEPT !.pc = "create_gemini"]]
    /\ UNCHANGED <<files, dirs, environ, handlers, lookup, agent>>

Completed(h) ==
    [status |-> "completed",
     base_image |-> DownloadLink(BaseImagePath(h)),
     video |-> DownloadLink(VideoOutputPath(h))]

Failed(e) == [status |-> "failed", error |-> Str(e)]

\* a worker that drops the entry of a run that completed
WorkerCompletedEvicts(h) ==
    /\ worker[h] = "running"
    /\ run[h].pc = "done"
    /\ run[h].outcome.kind = "returned"
    /\ task_status' = [k \in DOMAIN task_status \ {h} |-> task_status[k]]
    /\ worker' = [worker EXCEPT ![h] = "finished"]
    /\ UNCHANGED <<run, files, dirs, environ, handlers, writes, lookup, agent>>

\* background_task, lines 190-194: two_step_gemini_image returned
WorkerCompleted(h) ==
    /\ worker[h] = "running"
    /\ run[h].pc = "done"
    /\ run[h].outcome.kind = "returned"
    /\ task_status' = Store(task_status, h, Completed(h))
    /\ writes' = Written(h, WorkerThread(h), "setitem", Completed(h))
    /\ worker' = [worker EXCEPT ![h] = "finished"]
    /\ UNCHANGED <<run, files, dirs, environ, handlers, lookup, agent>>

\* a worker whose except clause names FreepikGeminiError only: any other
\* exception ends the thread
WorkerFailedOnFreepikErrorOnly(h) ==
    /\ worker[h] = "running"
    /\ run[h].pc = "done"
    /\ run[h].outcome.kind = "raised"
    /\ IF run[h].outcome.exc.cls = "FreepikGeminiError"
       THEN /\ task_status' = Store(task_status, h, Failed(run[h].outcome.exc))
            /\ writes' = Written(h, WorkerThread(h), "setitem", Failed(run[h].outcome.exc))
       ELSE UNCHANGED <<task_status, writes>>
    /\ worker' = [worker EXCEPT ![h] = "finished"]
    /\ UNCHANGED <<run, files, dirs, environ, handlers, lookup, agent>>

\* background_task, lines 195-199: except Exception as e
WorkerFailed(h) ==
    /\ worker[h] = "running"
    /\ run[h].pc = "done"
    /\ run[h].outcome.kind = "raised"
    /\ task_status' = Store(task_status, h, Failed(run[h].outcome.exc))
    /\ writes' = Written(h, WorkerThread(h), "setitem", Failed(run[h].outcome.exc))
    /\ worker' = [worker EXCEPT ![h] = "finished"]
    /\ UNCHANGED <<run, files, dirs, environ, handlers, lookup, agent>>

\* the ids a caller may look up: those of the requests and one never issued
LookupIds == Handlers \cup {"unknown"}

NoLookup == [task_id |-> None, response |-> NoResponse]

\* the graph of agent.py has not been invoked
NoAgent == [pc |-> "not_invoked", state |-> EmptyDict, updates |-> <<>>]

\* get_task_status(task_id), lines 215-219
GetTaskStatus(task_id) ==
    /\ lookup' = [task_id |-> task_id,
                  response |-> IF task_id \notin DOMAIN task_status
                               THEN JsonResponse(404, [error |-> [fmt |-> "Task not found"]])
                               ELSE JsonResponse(200, task_status[task_id])]
    /\ UNCHANGED <<run, files, dirs, environ, handlers, worker, task_status, writes, agent>>

----------------------------------------------------------------------------
(* The server of app.py *)

\* a step of the pipeline code running for r
PipelineStep(r) ==
    \/ CreateGeminiTask(r)
    \/ WaitGeminiStart(r)
    \/ WaitGeminiQuery(r)
    \/ WaitGeminiSleep(r)
    \/ DownloadImageGet(r)
    \/ DownloadImageChunk(r)
    \/ DownloadImageBroken(r)
    \/ DownloadImageReturn(r)
    \/ CreateVideoTask(r)
    \/ WaitVideoStart(r)
    \/ WaitVideoQuery(r)
    \/ WaitVideoSleep(r)
    \/ DownloadVideoGet(r)
    \/ DownloadVideoChunk(r)
    \/ DownloadVideoBroken(r)
    \/ DownloadVideoReturn(r)
    \/ DriverReturn(r)
    \/ DriverUnwind(r)

\* a step of the handler thread of request h after its head
HandlerStep(h) ==
    \/ GenerateImageRespond(h)
    \/ CreateVideoAdRespond(h)
    \/ HandlerExcept(h)
    \/ AsyncRegister(h)
    \/ AsyncStartThread(h)
    \/ AsyncRespond(h)

\* a step of the background_task thread of request h outside the pipeline code
WorkerStep(h) ==
    \/ WorkerProgress(h)
    \/ WorkerCompleted(h)
    \/ WorkerFailed(h)

\* the module is loaded (OUTPUT_DIR.mkdir, task_status = {}), the environment
\* holds one of keys, and the requests of hs have not arrived yet
ServerInit(hs, keys) ==
    /\ run = [h \in hs |-> NotCalled]
    /\ files = EmptyDict
    /\ dirs = {OutputDir}
    /\ environ \in keys
    /\ handlers = [h \in hs |-> InitHandler]
    /\ worker = [h \in hs |-> "not_started"]
    /\ task_status = EmptyDict
    /\ writes = EmptyDict
    /\ lookup = NoLookup
    /\ agent = NoAgent

\* one request to any generation route, and status lookups
AppHandlers == {"h1"}

AppInit == ServerInit(AppHandlers, EnvironKeys)

AppNext ==
    \/ \E h \in AppHandlers :
          \/ GenerateImageBegin(h)
          \/ CreateVideoAdBegin(h)
          \/ CreateVideoAdAsyncBegin(h)
          \/ HandlerStep(h)
          \/ WorkerStep(h)
          \/ PipelineStep(h)
    \/ \E task_id \in LookupIds : GetTaskStatus(task_id)

AppSpec == AppInit /\ [][AppNext]_vars

\* Every thread that can take a step eventually takes one, and the remote
\* service answers every request.
AppFairSpec ==
    /\ AppSpec
    /\ \A h \in AppHandlers :
          /\ WF_vars(HandlerStep(h))
          /\ WF_vars(WorkerStep(h))
          /\ WF_vars(PipelineStep(h))

\* two requests to the asynchronous route, their handlers and background
\* threads running concurrently; no key in the environment, every request
\* brings its own or is refused
ConcurrentInit == ServerInit(Handlers, {None})

ConcurrentNext ==
    \E h \in Handlers :
        \/ CreateVideoAdAsyncBegin(h)
        \/ AsyncRegister(h)
        \/ AsyncStartThread(h)
        \/ AsyncRespond(h)
        \/ WorkerStep(h)
        \/ PipelineStep(h)

ConcurrentSpec == ConcurrentInit /\ [][ConcurrentNext]_vars

----------------------------------------------------------------------------
(* A direct call of two_step_gemini_image *)

\* no server: the pipeline code is called directly
NoApp ==
    /\ environ = None
    /\ handlers = EmptyDict
    /\ worker = EmptyDict
    /\ task_status = EmptyDict
    /\ writes = EmptyDict
    /\ lookup = NoLookup
    /\ agent = NoAgent

Init ==
    /\ \E t \in Timeouts, p \in PollIntervals : run = [r \in PipelineRuns |-> InitFrame(t, p)]
    /\ files = EmptyDict
    /\ dirs = {}
    /\ NoApp

Next ==
    \E r \in PipelineRuns :
        \/ CreateGeminiTask(r)
        \/ WaitGeminiStart(r)
        \/ WaitGeminiQuery(r)
        \/ WaitGeminiSleep(r)
        \/ DownloadImageGet(r)
        \/ DownloadImageChunk(r)
        \/ DownloadImageBroken(r)
        \/ DownloadImageReturn(r)
        \/ CreateVideoTask(r)
        \/ WaitVideoStart(r)
        \/ WaitVideoQuery(r)
        \/ WaitVideoSleep(r)
        \/ DownloadVideoGet(r)
        \/ DownloadVideoChunk(r)
        \/ DownloadVideoBroken(r)
        \/ DownloadVideoReturn(r)
        \/ DriverReturn(r)
        \/ DriverUnwind(r)

Spec == Init /\ [][Next]_vars

\* The thread of a run keeps running and the remote service answers every
\* request: a step that can be taken is eventually taken.
FairSpec == Spec /\ WF_vars(Next)

(* agents/src/video_gen_agent/agent.py: the graph                          *)
(* START -> improve_prompts -> generate_image -> generate_video -> END.    *)
(* Every node returns an update that the graph merges into the state, key  *)
(* by key. The Freepik calls of the nodes are the pipeline steps of the    *)
(* run named AgentRun; BasePrompt and AdPrompt stand for the prompts the   *)
(* nodes send, whatever their text.                                        *)

\* the uuid4 of the file names of one invocation
AgentRun == "agent"

\* agent.invoke(input): the input holds prompt and user_id, and may hold
\* any other key of VideoGenAgent, such as image_url
AgentInputs ==
    {[prompt |-> BasePrompt, user_id |-> "user"],
     [prompt |-> BasePrompt, user_id |-> "user", image_url |-> "u0"]}

\* the state after a node returned update: the keys of update are
\* overwritten, the others are kept
Merge(state, update) ==
    [k \in DOMAIN state \cup DOMAIN update |->
        IF k \in DOMAIN update THEN update[k] ELSE state[k]]

\* the node `node` returns update, the graph goes on to next
AgentReturn(node, update, next) ==
    [agent EXCEPT !.state = Merge(agent.state, update),
                  !.updates = Append(agent.updates, [node |-> node, update |-> update]),
                  !.pc = next]

\* get_freepik_api_key raises ValueError without FREEPIK_API_KEY
ValueErrorNoKey ==
    [cls |-> "ValueError",
     message |-> [fmt |-> "FREEPIK_API_KEY environment variable is not set"]]
ValueErrorNoImageUrl ==
    [cls |-> "ValueError", message |-> [fmt |-> "Image URL is required to generate video"]]
LlmError == [cls |-> "Exception", message |-> [fmt |-> "model.invoke failed"]]

ImprovePromptsError(e) == [fmt |-> "Error improving prompts", e |-> Str(e)]
GenerateImageError(e) == [fmt |-> "Error generating image", e |-> Str(e)]
GenerateVideoError(e) == [fmt |-> "Error generating video", e |-> Str(e)]

\* improve_prompts, lines 70-125: the LLM answers or the call raises; both
\* ways the update holds the two prompts
ImprovePrompts ==
    /\ agent.pc = "improve_prompts"
    /\ \E ok \in BOOLEAN :
         agent' = AgentReturn("improve_prompts",
                              IF ok
                              THEN [base_prompt |-> BasePrompt, ad_prompt |-> AdPrompt]
                              ELSE [error |-> ImprovePromptsError(LlmError),
                                    base_prompt |-> agent.state.prompt,
                                    ad_prompt |-> AdPrompt],
                              "generate_image")
    /\ UNCHANGED <<run, files, dirs, environ, handlers, worker, task_status, writes, lookup>>

\* generate_image, lines 132-137: the key, then the first Freepik call
AgentGenerateImageBegin ==
    /\ agent.pc = "generate_image"
    /\ IF ~TruthyStr(environ)
       THEN /\ agent' = AgentReturn("generate_image",
                                    [error |-> GenerateImageError(ValueErrorNoKey)],
                                    "generate_video")
            /\ UNCHANGED run
       ELSE /\ agent' = [agent EXCEPT !.pc = "image_running"]
            /\ run' = [run EXCEPT ![AgentRun] =
                         [@ EXCEPT !.pc = "create_gemini", !.entry = "generate_image"]]
    /\ UNCHANGED <<files, dirs, environ, handlers, worker, task_status, writes, lookup>>

\* generate_image, lines 147-160: the download returned
AgentGenerateImageReturn ==
    /\ agent.pc = "image_running"
    /\ run[AgentRun].pc = "image_downloaded"
    /\ agent' = AgentReturn("generate_image",
                            [image_url |-> run[AgentRun].generated_urls_1[1],
                             image_path |-> BaseImagePath(AgentRun)],
                            "generate_video")
    /\ run' = [run EXCEPT ![AgentRun] =
                 [@ EXCEPT !.outcome = [kind |-> "returned", value |-> run[AgentRun].ret],
                           !.pc = "done"]]
    /\ UNCHANGED <<files, dirs, environ, handlers, worker, task_status, writes, lookup>>

\* generate_image, lines 161-164: except Exception as e
AgentGenerateImageExcept ==
    /\ agent.pc = "image_running"
    /\ run[AgentRun].pc = "done"
    /\ run[AgentRun].outcome.kind = "raised"
    /\ agent' = AgentReturn("generate_image",
                            [error |-> GenerateImageError(run[AgentRun].outcome.exc)],
                            "generate_video")
    /\ UNCHANGED <<run, files, dirs, environ, handlers, worker, task_status, writes, lookup>>

\* the frame of the Freepik calls of generate_video: its locals are new, the
\* clock and the record of calls and requests go on
VideoNodeFrame(f, image_url) ==
    [NotCalled EXCEPT !.pc = "create_video", !.entry = "generate_video",
                      !.base_image_url = image_url,
                      !.now = f.now, !.calls = f.calls, !.http = f.http]

\* generate_video, lines 171-184: the image URL of the state, the key, then
\* the first Freepik call
AgentGenerateVideoBegin ==
    /\ agent.pc = "generate_video"
    /\ IF ~TruthyStr(DictGet(agent.state, "image_url", None))
       THEN /\ agent' = AgentReturn("generate_video",
                                    [error |-> GenerateVideoError(ValueErrorNoImageUrl)],
                                    "end")
            /\ UNCHANGED run
       ELSE IF ~TruthyStr(environ)
       THEN /\ agent' = AgentReturn("generate_video",
                                    [error |-> GenerateVideoError(ValueErrorNoKey)],
                                    "end")
            /\ UNCHANGED run
       ELSE /\ agent' = [agent EXCEPT !.pc = "video_running"]
            /\ run' = [run EXCEPT ![AgentRun] =
                         VideoNodeFrame(run[AgentRun], agent.state.image_url)]
    /\ UNCHANGED <<files, dirs, environ, handlers, worker, task_status, writes, lookup>>

\* generate_video, lines 194-205: the download returned
AgentGenerateVideoReturn ==
    /\ agent.pc = "video_running"
    /\ run[AgentRun].pc = "done"
    /\ run[AgentRun].outcome.kind = "returned"
    /\ agent' = AgentReturn("generate_video",
                            [video_url |-> run[AgentRun].video_url,
                             video_path |-> VideoOutputPath(AgentRun)],
                            "end")
    /\ UNCHANGED <<run, files, dirs, environ, handlers, worker, task_status, writes, lookup>>

\* generate_video, lines 206-209: except Exception as e
AgentGenerateVideoExcept ==
    /\ agent.pc = "video_running"
    /\ run[AgentRun].pc = "done"
    /\ run[AgentRun].outcome.kind = "raised"
    /\ agent' = AgentReturn("generate_video",
                            [error |-> GenerateVideoError(run[AgentRun].outcome.exc)],
                            "end")
    /\ UNCHANGED <<run, files, dirs, environ, handlers, worker, task_status, writes, lookup>>

\* the module is loaded (OUTPUT_DIR.mkdir, lines 32-33) and agent.invoke is
\* called with one of the inputs
AgentInit ==
    /\ run = [r \in {AgentRun} |-> NotCalled]
    /\ files = EmptyDict
    /\ dirs = {OutputDir}
    /\ environ \in EnvironKeys
    /\ handlers = EmptyDict
    /\ worker = EmptyDict
    /\ task_status = EmptyDict
    /\ writes = EmptyDict
    /\ lookup = NoLookup
    /\ \E input \in AgentInputs :
          agent = [pc |-> "improve_prompts", state |-> input, updates |-> <<>>]

AgentNext ==
    \/ ImprovePrompts
    \/ AgentGenerateImageBegin
    \/ AgentGenerateImageReturn
    \/ AgentGenerateImageExcept
    \/ AgentGenerateVideoBegin
    \/ AgentGenerateVideoReturn
    \/ AgentGenerateVideoExcept
    \/ \E r \in {AgentRun} : PipelineStep(r)

AgentSpec == AgentInit /\ [][AgentNext]_vars

\* timeout is a plain int parameter (timeout: int = 300): a caller may pass
\* a negative one as well
SignedTimeouts == (0 - MaxTimeout)..MaxTimeout

SignedInit ==
    /\ \E t \in SignedTimeouts, p \in PollIntervals :
          run = [r \in PipelineRuns |-> InitFrame(t, p)]
    /\ files = EmptyDict
    /\ dirs = {}
    /\ NoApp

SignedSpec == SignedInit /\ [][Next]_vars

----------------------------------------------------------------------------
(* Observations used by the properties *)

\* the positions of the calls of function fn in the record of a run
CallsOf(f, fn) == {i \in 1..Len(f.calls) : f.calls[i].fn = fn}

\* the status queries a run has sent to endpoint
StatusQueries(f, endpoint) ==
    {i \in 1..Len(f.http) :
        /\ f.http[i].method = "GET"
        /\ f.http[i].url.base = endpoint}

InImagePoll(f) == f.pc \in {"gemini_query", "gemini_sleep"}
InVideoPoll(f) == f.pc \in {"video_query", "video_sleep"}

\* the "data" object of a response and its "generated" list ([] when absent)
RespData(resp) == IF "data" \in DOMAIN resp.body THEN resp.body.data ELSE EmptyDict
RespGenerated(resp) ==
    IF "generated" \in DOMAIN RespData(resp) THEN RespData(resp).generated ELSE <<>>
RespStatus(resp) ==
    IF "status" \in DOMAIN RespData(resp) THEN RespData(resp).status ELSE None

\* an HTTP-200 response with output, and one without
HasOutput(resp) == resp.status_code = 200 /\ RespGenerated(resp) # <<>>
Empty200(resp) == resp.status_code = 200 /\ RespGenerated(resp) = <<>>

\* time since the polling call in progress started
Elapsed(f) == f.now - f.start

\* the run takes a step of its own from position pc
StepFrom(r, pc) == run[r].pc = pc /\ run'[r] # run[r]

IsTimeoutError(e) ==
    /\ e.cls = "FreepikGeminiError"
    /\ e.message.fmt \in {"Timeout waiting for task", "Timeout waiting for video"}
IsPollError(e) ==
    /\ e.cls = "FreepikGeminiError"
    /\ e.message.fmt \in {"Error getting Gemini task status", "Error polling video task"}

----------------------------------------------------------------------------
(* C1: whenever a run has called _create_video_task, its earlier call of    *)
(* _wait_for_gemini_task has returned, and returned a list of at least one *)
(* URL.                                                                    *)
C1_VideoOnlyAfterImageOutput ==
    \A r \in Runs :
        \A i \in CallsOf(run[r], "_create_video_task") :
            /\ \E j \in CallsOf(run[r], "_wait_for_gemini_task") : j < i
            /\ ~InImagePoll(run[r])
            /\ run[r].pc # "wait_gemini"
            /\ Len(run[r].generated_urls_1) >= 1
            /\ StatusQueries(run[r], FREEPIK_GEMINI_ENDPOINT) # {}

\* a run has submitted its video task after an image poll of several queries
C1_Witness ==
    \E r \in Runs :
        /\ CallsOf(run[r], "_create_video_task") # {}
        /\ Cardinality(StatusQueries(run[r], FREEPIK_GEMINI_ENDPOINT)) >= 2
        /\ Len(run[r].generated_urls_1) = 2

----------------------------------------------------------------------------
(* C2: in both polling loops, a status query answered by HTTP 200 with a    *)
(* non-empty generated list ends the loop in that very step with success,  *)
(* whatever the status field reads: the image poll returns the list, the   *)
(* video poll its first element; and once a poll has returned, the run     *)
(* sends no further status query for it and does not sleep for it.         *)
C2_Step(r) ==
    /\ (StepFrom(r, "gemini_query") /\ HasOutput(run'[r].resp)) =>
          /\ run'[r].pc = "download_image"
          /\ run'[r].exc = NoExc
          /\ run'[r].generated_urls_1 = RespGenerated(run'[r].resp)
    /\ (StepFrom(r, "video_query") /\ HasOutput(run'[r].resp)) =>
          /\ run'[r].pc = "download_video"
          /\ run'[r].exc = NoExc
          /\ run'[r].video_url = RespGenerated(run'[r].resp)[1]
    /\ run[r].generated_urls_1 # <<>> =>
          /\ ~InImagePoll(run'[r])
          /\ StatusQueries(run'[r], FREEPIK_GEMINI_ENDPOINT)
               = StatusQueries(run[r], FREEPIK_GEMINI_ENDPOINT)
    /\ run[r].video_url # None =>
          /\ ~InVideoPoll(run'[r])
          /\ StatusQueries(run'[r], FREEPIK_VIDEO_ENDPOINT)
               = StatusQueries(run[r], FREEPIK_VIDEO_ENDPOINT)
          /\ run'[r].now = run[r].now

C2_FirstOutputEndsPoll == [][\A r \in Runs : C2_Step(r)]_vars

\* both polls of a run returned on a response whose status did not read
\* COMPLETED, the image poll after an earlier query without output
C2_Witness ==
    \E r \in Runs :
        /\ run[r].pc = "download_video"
        /\ HasOutput(run[r].resp)
        /\ RespStatus(run[r].resp) = "FAILED"
        /\ Cardinality(StatusQueries(run[r], FREEPIK_GEMINI_ENDPOINT)) >= 2
        /\ Cardinality(StatusQueries(run[r], FREEPIK_VIDEO_ENDPOINT)) >= 2

----------------------------------------------------------------------------
(* C3: in both polling loops, a status query answered by HTTP 200 without   *)
(* output ends the loop exactly when the deadline is exceeded (with the    *)
(* timeout error) and otherwise leads to the sleep, whatever the status    *)
(* field reads; and a loop ends only on output, on a non-success response  *)
(* or on the deadline being exceeded.                                      *)
C3_Loop(r, query, sleep, fn) ==
    /\ (StepFrom(r, query) /\ Empty200(run'[r].resp)) =>
          IF Elapsed(run[r]) > run[r].timeout
          THEN /\ run'[r].pc = "unwind"
               /\ run'[r].failed_step = fn
               /\ IsTimeoutError(run'[r].exc)
          ELSE /\ run'[r].pc = sleep
               /\ run'[r].exc = NoExc
    /\ (StepFrom(r, query) /\ run'[r].pc # sleep) =>
          \/ HasOutput(run'[r].resp)
          \/ run'[r].resp.status_code # 200
          \/ Elapsed(run[r]) > run[r].timeout
    /\ StepFrom(r, sleep) => run'[r].pc = query

C3_StatusIsAdvisory ==
    [][\A r \in Runs :
          /\ C3_Loop(r, "gemini_query", "gemini_sleep", "_wait_for_gemini_task")
          /\ C3_Loop(r, "video_query", "video_sleep", "_wait_for_video_task")]_vars

\* a poll goes on to sleep after a response without output whose status
\* reads FAILED
C3_Witness ==
    \E r \in Runs :
        /\ run[r].pc = "gemini_sleep"
        /\ Empty200(run[r].resp)
        /\ RespStatus(run[r].resp) = "FAILED"
        /\ "generated" \in DOMAIN RespData(run[r].resp)

----------------------------------------------------------------------------
(* C4: for timeout >= 0 and poll_interval > 0, a polling call in progress   *)
(* has run for at most timeout + poll_interval time units (at most timeout *)
(* when it is about to sleep), and every polling call in progress          *)
(* eventually ends.                                                        *)
C4_WithinBound(f) ==
    (InImagePoll(f) \/ InVideoPoll(f)) /\ f.timeout >= 0 /\ f.poll_interval > 0 =>
        /\ Elapsed(f) <= f.timeout + f.poll_interval
        /\ f.pc \in {"gemini_sleep", "video_sleep"} => Elapsed(f) <= f.timeout

C4_PollTerminatesInTime ==
    /\ [](\A r \in Runs : C4_WithinBound(run[r]))
    /\ \A r \in PipelineRuns :
          /\ InImagePoll(run[r]) ~> ~InImagePoll(run[r])
          /\ InVideoPoll(run[r]) ~> ~InVideoPoll(run[r])

\* a status query is sent exactly timeout + poll_interval after the start of
\* its poll, with a timeout that is not 0
C4_Witness ==
    \E r \in Runs :
        /\ run[r].pc = "video_query"
        /\ run[r].timeout >= 1
        /\ Elapsed(run[r]) = run[r].timeout + run[r].poll_interval

----------------------------------------------------------------------------
(* C5: a polling call raises its timeout error only in a step taken when    *)
(* the elapsed time is strictly greater than timeout, on a response        *)
(* without output; and a polling call in progress eventually ends, either  *)
(* by the timeout error or on a response that is not an HTTP 200 without   *)
(* output: when every response is an HTTP 200 without output, the timeout  *)
(* error is eventually raised.                                             *)
C5_TimedOut(f, fn) == f.failed_step = fn /\ IsTimeoutError(f.exc)

C5_RaiseStep(r) ==
    (run'[r].exc # run[r].exc /\ IsTimeoutError(run'[r].exc)) =>
        /\ Elapsed(run[r]) > run[r].timeout
        /\ run'[r].now = run[r].now
        /\ Empty200(run'[r].resp)

C5_TimeoutOnlyAfterDeadline ==
    /\ [][\A r \in Runs : C5_RaiseStep(r)]_vars
    /\ \A r \in PipelineRuns :
          /\ InImagePoll(run[r]) ~>
                /\ ~InImagePoll(run[r])
                /\ \/ C5_TimedOut(run[r], "_wait_for_gemini_task")
                   \/ ~Empty200(run[r].resp)
          /\ InVideoPoll(run[r]) ~>
                /\ ~InVideoPoll(run[r])
                /\ \/ C5_TimedOut(run[r], "_wait_for_video_task")
                   \/ ~Empty200(run[r].resp)

\* the image poll of a run raised the timeout error on its third query or later
C5_Witness ==
    \E r \in Runs :
        /\ C5_TimedOut(run[r], "_wait_for_gemini_task")
        /\ Empty200(run[r].resp)
        /\ Cardinality(StatusQueries(run[r], FREEPIK_GEMINI_ENDPOINT)) >= 3
        /\ run[r].now > run[r].timeout

----------------------------------------------------------------------------
(* C6: in both polling loops, a status query answered by a non-success      *)
(* HTTP status raises the poll error in that very step, and a run whose    *)
(* poll has raised sends no further request.                               *)
C6_Loop(r, query, fn) ==
    /\ (StepFrom(r, query) /\ run'[r].resp.status_code # 200) =>
          /\ run'[r].pc = "unwind"
          /\ run'[r].failed_step = fn
          /\ IsPollError(run'[r].exc)
          /\ run'[r].exc.message.status_code = run'[r].resp.status_code
    /\ run[r].failed_step = fn =>
          /\ run'[r].http = run[r].http
          /\ run'[r].now = run[r].now
          /\ run'[r].failed_step = fn

C6_PollErrorAborts ==
    [][\A r \in Runs :
          /\ C6_Loop(r, "gemini_query", "_wait_for_gemini_task")
          /\ C6_Loop(r, "video_query", "_wait_for_video_task")]_vars

\* the second status query of the image poll was answered by a non-success
\* status before the deadline, and the run has ended
C6_Witness ==
    \E r \in Runs :
        /\ run[r].pc = "done"
        /\ run[r].failed_step = "_wait_for_gemini_task"
        /\ IsPollError(run[r].exc)
        /\ Cardinality(StatusQueries(run[r], FREEPIK_GEMINI_ENDPOINT)) = 2
        /\ run[r].now < run[r].timeout

----------------------------------------------------------------------------
(* C7: the timeout error of a polling call, image or video, carries the     *)
(* status and the whole data object of the last status response.           *)
C7_TimeoutCarriesStatusAndData ==
    \A r \in Runs :
        IsTimeoutError(run[r].exc) =>
            /\ {"status", "data"} \subseteq DOMAIN run[r].exc.message
            /\ run[r].exc.message.status = RespStatus(run[r].resp)
            /\ run[r].exc.message.data = RespData(run[r].resp)

----------------------------------------------------------------------------
(* C8: a submission, image or video, returns a task id exactly when the     *)
(* response has status 200 and a non-empty data.task_id, and the id it     *)
(* returns is that one; on every other response it raises                  *)
(* FreepikGeminiError and returns nothing.                                 *)
C8_ValidSubmission(resp) ==
    /\ resp.status_code = 200
    /\ "data" \in DOMAIN resp.body
    /\ "task_id" \in DOMAIN resp.body.data
    /\ resp.body.data.task_id # ""

C8_Submit(r, at, next, fn, local) ==
    StepFrom(r, at) =>
        IF C8_ValidSubmission(run'[r].resp)
        THEN /\ run'[r].pc = next
             /\ run'[r].exc = NoExc
             /\ run'[r][local] = run'[r].resp.body.data.task_id
             /\ run'[r][local] \notin {"", None}
        ELSE /\ run'[r].pc = "unwind"
             /\ run'[r].failed_step = fn
             /\ run'[r].exc.cls = "FreepikGeminiError"
             /\ run'[r][local] = None

C8_SubmissionReturnsNonEmptyId ==
    [][\A r \in Runs :
          /\ C8_Submit(r, "create_gemini", "wait_gemini", "_create_gemini_task", "task_id_1")
          /\ C8_Submit(r, "create_video", "wait_video", "_create_video_task", "task_id_2")]_vars

\* a video submission answered by HTTP 200 with an empty task_id has raised
C8_Witness ==
    \E r \in Runs :
        /\ run[r].pc = "unwind"
        /\ run[r].failed_step = "_create_video_task"
        /\ run[r].resp.status_code = 200
        /\ "data" \in DOMAIN run[r].resp.body
        /\ "task_id" \in DOMAIN run[r].resp.body.data
        /\ run[r].resp.body.data.task_id = ""

----------------------------------------------------------------------------
(* C9: when a sub-step of the driver raises, the sub-step that raised is    *)
(* the last one the run has called; from then on the run calls no          *)
(* sub-step and sends no request, never returns a path pair, and the       *)
(* exception its caller gets is the one the sub-step raised.               *)
C9_Step(r) ==
    /\ (run[r].exc = NoExc /\ run'[r].exc # NoExc) =>
          /\ run'[r].pc = "unwind"
          /\ run'[r].outcome = NoOutcome
          /\ run'[r].calls # <<>>
          /\ run'[r].calls[Len(run'[r].calls)].fn = run'[r].failed_step
    /\ run[r].exc # NoExc =>
          /\ run'[r].exc = run[r].exc
          /\ run'[r].failed_step = run[r].failed_step
          /\ run'[r].calls = run[r].calls
          /\ run'[r].http = run[r].http
          /\ run'[r].pc \in {"unwind", "done"}
          /\ run'[r].outcome.kind # "returned"
          /\ run'[r].outcome.kind = "raised" => run'[r].outcome.exc = run[r].exc
    /\ (run[r].pc = "unwind" /\ run'[r] # run[r]) =>
          run'[r].outcome = [kind |-> "raised", exc |-> run[r].exc]

C9_FailFast == [][\A r \in Runs : C9_Step(r)]_vars

\* the video download, the sixth sub-step, broke while streaming and the
\* caller got that exception
C9_Witness ==
    \E r \in Runs :
        /\ run[r].pc = "done"
        /\ run[r].outcome.kind = "raised"
        /\ run[r].outcome.exc.cls = "ChunkedEncodingError"
        /\ run[r].failed_step = "_download_file"
        /\ Len(run[r].calls) = 6

----------------------------------------------------------------------------
(* C10: a run that returned has called exactly six sub-steps, in this       *)
(* order: _create_gemini_task with base_prompt, _wait_for_gemini_task with *)
(* the id that returned, _download_file of the first URL the poll returned *)
(* to base_image_path, _create_video_task with that same URL and           *)
(* ad_prompt, _wait_for_video_task with the id that returned,              *)
(* _download_file of the video URL to video_output_path; and it returned   *)
(* the pair (base_image_path, video_output_path).                          *)
C10_Calls(r) ==
    LET f == run[r]
        first_url == f.generated_urls_1[1]
    IN  << [fn |-> "_create_gemini_task",
            args |-> [api_key |-> ApiKey, prompt |-> BasePrompt]],
           [fn |-> "_wait_for_gemini_task",
            args |-> [api_key |-> ApiKey, task_id |-> f.task_id_1,
                      timeout |-> f.timeout, poll_interval |-> f.poll_interval]],
           [fn |-> "_download_file",
            args |-> [url |-> first_url, output_path |-> BaseImagePath(r)]],
           [fn |-> "_create_video_task",
            args |-> [api_key |-> ApiKey, image_url |-> first_url, prompt |-> AdPrompt]],
           [fn |-> "_wait_for_video_task",
            args |-> [api_key |-> ApiKey, task_id |-> f.task_id_2,
                      timeout |-> f.timeout, poll_interval |-> f.poll_interval]],
           [fn |-> "_download_file",
            args |-> [url |-> f.video_url, output_path |-> VideoOutputPath(r)]] >>

C10_SuccessfulRunOrder ==
    \A r \in Runs :
        run[r].outcome.kind = "returned" =>
            /\ run[r].calls = C10_Calls(r)
            /\ run[r].task_id_1 \in TaskIds(FREEPIK_GEMINI_ENDPOINT)
            /\ run[r].task_id_2 \in TaskIds(FREEPIK_VIDEO_ENDPOINT)
            /\ run[r].outcome.value = <<BaseImagePath(r), VideoOutputPath(r)>>
            /\ run[r].exc = NoExc

\* a run returned whose image poll had returned two URLs
C10_Witness ==
    \E r \in Runs :
        /\ run[r].outcome.kind = "returned"
        /\ Len(run[r].generated_urls_1) = 2
        /\ run[r].generated_urls_1[1] # run[r].generated_urls_1[2]

----------------------------------------------------------------------------
(* C11: when the download request is answered with a status other than     *)
(* 200, _download_file raises its error and leaves the file system as it   *)
(* was: no file is created or cleared at output_path and no directory is   *)
(* made; nothing touches the file system while the error travels to the    *)
(* caller either.                                                          *)
C11_Step(r) ==
    /\ ( /\ StepFrom(r, "download_image") \/ StepFrom(r, "download_video")
         /\ run'[r].resp.status_code # HTTP_OK ) =>
          /\ files' = files
          /\ dirs' = dirs
          /\ run'[r].pc = "unwind"
          /\ run'[r].failed_step = "_download_file"
          /\ run'[r].exc.cls = "FreepikGeminiError"
          /\ run'[r].exc.message.fmt = "Error downloading file"
          /\ run'[r].exc.message.status_code = run'[r].resp.status_code
    /\ StepFrom(r, "unwind") => files' = files /\ dirs' = dirs

C11_FailedDownloadLeavesNoFile == [][\A r \in Runs : C11_Step(r)]_vars

\* the image download was refused, the caller got the error, and neither the
\* image file nor the output directory exists
C11_Witness ==
    \E r \in Runs :
        /\ run[r].pc = "done"
        /\ run[r].outcome.kind = "raised"
        /\ run[r].failed_step = "_download_file"
        /\ run[r].resp.status_code # HTTP_OK
        /\ BaseImagePath(r) \notin DOMAIN files
        /\ Parent(BaseImagePath(r)) \notin dirs

----------------------------------------------------------------------------
(* C12: when the download request is answered 200, _download_file makes    *)
(* the parent directory of output_path if it is missing, leaves at         *)
(* output_path a file whose content is the chunks of the response body     *)
(* joined in the order they arrived, and returns output_path.              *)
RECURSIVE Concat(_)
Concat(chunks) == IF chunks = <<>> THEN <<>> ELSE Head(chunks) \o Concat(Tail(chunks))

C12_Returned(r, writing, output_path) ==
    ( /\ StepFrom(r, writing)
      /\ run'[r].pc # "unwind" /\ run'[r].pc # writing ) =>
        /\ run[r].resp.status_code = HTTP_OK
        /\ Parent(output_path) \in dirs'
        /\ output_path \in DOMAIN files'
        /\ files'[output_path] = Concat(run[r].resp.chunks)
        /\ run'[r].ret = output_path

C12_DownloadWritesBody ==
    [][\A r \in Runs : /\ C12_Returned(r, "write_image", BaseImagePath(r))
                        /\ C12_Returned(r, "write_video", VideoOutputPath(r))]_vars

\* the image download returned after a body of three chunks, the second of
\* them empty, into a directory that did not exist before
C12_Witness ==
    \E r \in Runs :
        /\ run[r].pc = "create_video"
        /\ Len(run[r].resp.chunks) = 3
        /\ files[BaseImagePath(r)] = <<"b", "a">>
        /\ run[r].ret = BaseImagePath(r)
        /\ dirs = {OutputDir}

----------------------------------------------------------------------------
(* C13: once the image download has returned, the file at base_image_path  *)
(* stays where it is with the content it has, whatever the run does next:  *)
(* a failure of the video submission, the video poll or the video download *)
(* removes or rewrites nothing.                                            *)
C13_ImageDownloaded(r) == run[r].ret # <<>>

C13_VideoStageFailed(r) ==
    /\ run[r].outcome.kind = "raised"
    /\ \/ run[r].failed_step \in {"_create_video_task", "_wait_for_video_task"}
       \/ run[r].failed_step = "_download_file" /\ run[r].ret # <<>>

C13_ImageKeptAfterVideoFailure ==
    [][\A r \in Runs :
          C13_ImageDownloaded(r) =>
              /\ BaseImagePath(r) \in DOMAIN files /\ BaseImagePath(r) \in DOMAIN files'
              /\ files'[BaseImagePath(r)] = files[BaseImagePath(r)]]_vars

\* the video download was refused after an image of two chunks had been
\* written; the run ended with that error and the image is on disk
C13_Witness ==
    \E r \in Runs :
        /\ C13_VideoStageFailed(r)
        /\ run[r].failed_step = "_download_file"
        /\ files[BaseImagePath(r)] = <<"a", "b">>
        /\ VideoOutputPath(r) \notin DOMAIN files

----------------------------------------------------------------------------
(* Observations of the server *)

\* the writes to task_status[k] so far
WritesTo(k) == IF k \in DOMAIN writes THEN writes[k] ELSE <<>>

\* this step writes task_status[k]
WritesEntry(k) == k \in DOMAIN writes' /\ writes'[k] # WritesTo(k)

\* the write this step makes to task_status[k]
LastWrite(k) == writes'[k][Len(writes'[k])]

\* request h was accepted by the asynchronous route: the 202 was sent
Answered202(h) == handlers[h].pc = "responded" /\ handlers[h].response.status_code = 202

----------------------------------------------------------------------------
(* C14 as claimed: every write to an entry of task_status is made by the   *)
(* background worker of that correlation id, never by a request handler.   *)
C14_OnlyWorkerWrites ==
    \A k \in DOMAIN writes :
        \A i \in 1..Len(writes[k]) : writes[k][i].by = WorkerThread(k)

(* C14 as amended: an entry of task_status has two writers, one after the  *)
(* other. The request handler that issued the correlation id writes it     *)
(* once, as a new entry and before it starts the background thread; every  *)
(* later write is made by the background worker of that run. No other      *)
(* handler and no other worker writes it.                                  *)
C14_WriteStep(k) ==
    WritesEntry(k) =>
        /\ Len(writes'[k]) = Len(WritesTo(k)) + 1
        /\ IF WritesTo(k) = <<>>
           THEN /\ LastWrite(k).by = HandlerThread(k)
                /\ k \notin DOMAIN task_status
                /\ worker[k] = "not_started"
                /\ handlers[k].pc # handlers'[k].pc
           ELSE /\ LastWrite(k).by = WorkerThread(k)
                /\ worker[k] # worker'[k]

C14_HandlerOnceThenWorker ==
    [][\A k \in Handlers :
          /\ C14_WriteStep(k)
          /\ (k \in DOMAIN task_status' /\ ~WritesEntry(k)) =>
                 (k \in DOMAIN task_status /\ task_status'[k] = task_status[k])]_vars

\* the entry of one run has had its three writes, by the handler, the worker
\* and the worker, while the worker of the other run is in its pipeline
C14_Witness ==
    /\ Len(WritesTo("h1")) = 3
    /\ writes["h1"][1].by = HandlerThread("h1")
    /\ writes["h1"][2].by = WorkerThread("h1")
    /\ writes["h1"][3].by = WorkerThread("h1")
    /\ Len(WritesTo("h2")) = 2
    /\ worker["h2"] = "running"

----------------------------------------------------------------------------
(* C15: every write to task_status stores a whole value under its key,     *)
(* none sets a field of a value already stored; so the value the map holds *)
(* under a key, and the value a lookup of /api/task-status answered with,  *)
(* is always one that some write stored as a whole.                        *)
C15_StoredWhole(k) ==
    {writes[k][i].value : i \in {j \in 1..Len(WritesTo(k)) : writes[k][j].op = "setitem"}}

C15_WholeValueWrites ==
    /\ \A k \in DOMAIN writes :
          \A i \in 1..Len(writes[k]) : writes[k][i].op = "setitem"
    /\ \A k \in DOMAIN task_status : task_status[k] \in C15_StoredWhole(k)
    /\ lookup.response.status_code = 200 =>
          lookup.response.body \in C15_StoredWhole(lookup.task_id)

----------------------------------------------------------------------------
(* C16: when every thread keeps running and the remote service answers     *)
(* every request, a run the asynchronous route accepted (it answered 202)  *)
(* gets a final status: the entry of its correlation id comes to say       *)
(* "completed" or "failed", it does not say "processing" for ever.         *)
C16_Terminal(h) ==
    /\ h \in DOMAIN task_status
    /\ task_status[h].status \in {"completed", "failed"}

C16_AcceptedRunEnds == \A h \in AppHandlers : Answered202(h) ~> C16_Terminal(h)

\* an accepted run was recorded as failed because its video poll timed out
C16_Witness ==
    \E h \in AppHandlers :
        /\ Answered202(h)
        /\ C16_Terminal(h)
        /\ task_status[h].status = "failed"
        /\ run[h].failed_step = "_wait_for_video_task"
        /\ IsTimeoutError(run[h].outcome.exc)

----------------------------------------------------------------------------
(* C17: asynchronous runs that overlap do not touch each other. A step of  *)
(* the threads of one request changes nothing that belongs to another      *)
(* request: not its entry of task_status, not its image file or video      *)
(* file, not its frames. And the state recorded for a run when its worker  *)
(* ends is what its own pipeline call returned or raised, exactly as it    *)
(* would be had no other run been there.                                   *)
C17_Acts(h) ==
    \/ handlers'[h] # handlers[h]
    \/ worker'[h] # worker[h]
    \/ run'[h] # run[h]

C17_Entry(ts, k) == IF k \in DOMAIN ts THEN <<ts[k]>> ELSE <<>>

C17_Untouched(k) ==
    /\ C17_Entry(task_status', k) = C17_Entry(task_status, k)
    /\ C17_Entry(files', BaseImagePath(k)) = C17_Entry(files, BaseImagePath(k))
    /\ C17_Entry(files', VideoOutputPath(k)) = C17_Entry(files, VideoOutputPath(k))

C17_Recorded(h) ==
    worker[h] = "finished" =>
        /\ run[h].pc = "done"
        /\ task_status[h] = IF run[h].outcome.kind = "returned"
                            THEN Completed(h)
                            ELSE Failed(run[h].outcome.exc)
        /\ run[h].outcome.kind = "returned" =>
              /\ BaseImagePath(h) \in DOMAIN files
              /\ VideoOutputPath(h) \in DOMAIN files
              /\ files[VideoOutputPath(h)] = Concat(run[h].resp.chunks)

C17_RunsAreIndependent ==
    /\ [](\A h \in Handlers : C17_Recorded(h))
    /\ [][\A h \in Handlers :
            \A k \in Handlers \ {h} : C17_Acts(h) => ~C17_Acts(k) /\ C17_Untouched(k)]_vars

\* two runs overlapped and both ended: one completed with both its files
\* written, the other failed after its image had been written
C17_Witness ==
    /\ worker["h1"] = "finished" /\ worker["h2"] = "finished"
    /\ task_status["h1"].status = "completed"
    /\ task_status["h2"].status = "failed"
    /\ BaseImagePath("h1") \in DOMAIN files /\ BaseImagePath("h2") \in DOMAIN files
    /\ VideoOutputPath("h2") \notin DOMAIN files
    /\ Len(run["h1"].http) > Len(run["h2"].http)

----------------------------------------------------------------------------
(* C18: the asynchronous route does not wait for the pipeline. Once it has *)
(* started the background thread it can answer at once, whatever that      *)
(* thread has or has not done; its answer is 202 with the correlation id   *)
(* and the status URL of that id; and nothing the run does afterwards,     *)
(* failing included, changes the answer that was sent.                     *)
C18_AnswerStep(h) ==
    /\ (handlers[h].pc = "respond" /\ handlers'[h] # handlers[h]) =>
          /\ handlers'[h].response = Accepted(h)
          /\ handlers'[h].response.status_code = 202
          /\ handlers'[h].response.body.task_id = handlers[h].task_id
          /\ handlers'[h].pc = "responded"
          /\ UNCHANGED <<run, worker, task_status>>
    /\ Answered202(h) => handlers'[h] = handlers[h]

C18_AnswersWithoutWaiting ==
    /\ [](\A h \in AppHandlers : handlers[h].pc = "respond" => ENABLED AsyncRespond(h))
    /\ [][\A h \in AppHandlers : C18_AnswerStep(h)]_vars

\* the 202 was sent while the background thread had not taken a step
C18_Witness ==
    \E h \in AppHandlers :
        /\ Answered202(h)
        /\ worker[h] = "started"
        /\ run[h].pc = "not_called"
        /\ task_status[h].progress = "Starting..."

----------------------------------------------------------------------------
(* C19: a lookup of /api/task-status/<id> answers 404 exactly when the     *)
(* asynchronous route has not issued that id, and 200 with the entry       *)
(* otherwise. An id the route has answered 202 with has an entry in        *)
(* task_status from that moment on, and an entry, once there, is never     *)
(* removed: a lookup of an id a caller was given never answers 404.        *)
C19_Issued(k) == k \in DOMAIN handlers /\ handlers[k].task_id = k

C19_LookupStep(k) ==
    (lookup' # lookup /\ lookup'.task_id = k) =>
        /\ lookup'.response.status_code \in {200, 404}
        /\ lookup'.response.status_code = 404 <=> ~C19_Issued(k)
        /\ lookup'.response.status_code = 200 => lookup'.response.body = task_status[k]

C19_IssuedIdsAreKnown ==
    /\ [](\A h \in AppHandlers : Answered202(h) => C19_Issued(h) /\ h \in DOMAIN task_status)
    /\ [][/\ \A k \in LookupIds : C19_LookupStep(k)
          /\ \A k \in DOMAIN task_status : k \in DOMAIN task_status']_vars

\* the caller was given an id with the 202, and its lookup answered 200
\* with the entry of a run that had failed by then
C19_Witness ==
    \E h \in AppHandlers :
        /\ Answered202(h)
        /\ lookup.task_id = handlers[h].response.body.task_id
        /\ lookup.response.status_code = 200
        /\ lookup.response.body.status = "failed"

----------------------------------------------------------------------------
(* C20: on each of the three generation routes, a request without a        *)
(* credential (no key in the header, none in the environment) is answered  *)
(* 401 whatever its body, and a request with a credential whose required   *)
(* prompt field is missing or empty is answered 400; in both cases no      *)
(* request has been sent to the remote service, task_status has no entry   *)
(* for it and no background thread was started.                            *)
C20_NoCredential(req) == ~TruthyStr(GetApiKey(req))

C20_PromptMissing(req) ==
    \E k \in RequiredFields(req.route) : ~TruthyStr(DictGet(req.json.value, k, None))

C20_NoEffect(h) ==
    /\ run[h].calls = <<>>
    /\ run[h].http = <<>>
    /\ h \notin DOMAIN task_status
    /\ worker[h] = "not_started"

C20_RejectedRequests ==
    \A h \in AppHandlers :
        handlers[h].pc # "listening" =>
            LET req == handlers[h].request
            IN  /\ C20_NoCredential(req) =>
                      handlers[h].response.status_code = 401 /\ C20_NoEffect(h)
                /\ (~C20_NoCredential(req) /\ C20_PromptMissing(req)) =>
                      handlers[h].response.status_code = 400 /\ C20_NoEffect(h)

----------------------------------------------------------------------------
(* C21: in the synchronous routes, generate_image and create_video_ad, a   *)
(* failure of a downstream step (a submission, a poll, a deadline, a       *)
(* download) is answered 500 with an error field that holds the message of *)
(* that failure; the handler can always give that answer, and a request    *)
(* whose run failed is never answered 200.                                 *)
C21_Sync(h) == handlers[h].request.route \in {"generate_image", "create_video_ad"}

\* the error field is str(e), or "Unexpected error: " followed by str(e)
C21_Holds(error, e) ==
    \/ error = Str(e)
    \/ error.fmt = "Unexpected error" /\ error.e = Str(e)

C21_DownstreamFailureIs500 ==
    \A h \in AppHandlers :
        C21_Sync(h) =>
            /\ (handlers[h].pc = "running" /\ run[h].outcome.kind = "raised") =>
                  ENABLED HandlerExcept(h)
            /\ (handlers[h].pc = "responded" /\ run[h].outcome.kind = "raised") =>
                  /\ handlers[h].response.status_code = 500
                  /\ C21_Holds(handlers[h].response.body.error, run[h].outcome.exc)
            /\ run[h].exc # NoExc => handlers[h].response.status_code # 200
            /\ handlers[h].response.status_code = 200 => run[h].outcome.kind = "returned"

\* create_video_ad answered 500 for a video download whose stream broke
C21_Witness ==
    \E h \in AppHandlers :
        /\ handlers[h].request.route = "create_video_ad"
        /\ handlers[h].pc = "responded"
        /\ handlers[h].response.status_code = 500
        /\ run[h].outcome.kind = "raised"
        /\ run[h].outcome.exc.cls = "ChunkedEncodingError"
        /\ run[h].ret # <<>>

----------------------------------------------------------------------------
(* C22: what the polls return. When the image poll has returned, its       *)
(* result is the generated list of the response that ended it: as long,    *)
(* and with the same URL at every position. When the video poll has        *)
(* returned, its result is one URL, the first of the generated list of the *)
(* response that ended it, however many URLs follow.                       *)
C22_ImagePollResult(f) ==
    LET generated == f.resp.body.data.generated
    IN  /\ f.resp.status_code = HTTP_OK
        /\ Len(f.generated_urls_1) = Len(generated)
        /\ \A i \in 1..Len(generated) : f.generated_urls_1[i] = generated[i]

C22_VideoPollResult(f) ==
    LET generated == f.resp.body.data.generated
    IN  /\ f.resp.status_code = HTTP_OK
        /\ Len(generated) >= 1
        /\ f.video_url = generated[1]

C22_PollResults ==
    \A r \in Runs :
        /\ run[r].pc = "download_image" => C22_ImagePollResult(run[r])
        /\ run[r].pc = "download_video" => C22_VideoPollResult(run[r])

\* both polls of a run ended on a list of two different URLs: the image
\* poll returned both, the video poll the first
C22_Witness ==
    \E r \in Runs :
        /\ run[r].pc = "download_video"
        /\ run[r].generated_urls_1 = <<"u2", "u1">>
        /\ run[r].resp.body.data.generated = <<"u2", "u1">>
        /\ run[r].video_url = "u2"

----------------------------------------------------------------------------
(* The cause of the exception a run has raised, told from the sub-step     *)
(* that raised and the response it had received: a failed submission, a    *)
(* status query answered with a non-success status, a deadline exceeded, a *)
(* refused download; a download whose stream broke is none of the four.    *)
C23_Cause(f) ==
    IF f.failed_step \in {"_create_gemini_task", "_create_video_task"} THEN "submission"
    ELSE IF f.failed_step \in {"_wait_for_gemini_task", "_wait_for_video_task"}
    THEN IF f.resp.status_code # HTTP_OK THEN "poll" ELSE "timeout"
    ELSE IF f.resp.status_code # HTTP_OK THEN "download" ELSE "stream"

C23_Causes == {"submission", "poll", "timeout", "download"}

(* C23 as claimed: the four causes reach the caller as four error kinds,   *)
(* SubmissionError, PollError, TimeoutError and DownloadError, one kind    *)
(* for each cause.                                                         *)
C23_Kind(cause) ==
    CASE cause = "submission" -> "SubmissionError"
      [] cause = "poll"       -> "PollError"
      [] cause = "timeout"    -> "TimeoutError"
      [] cause = "download"   -> "DownloadError"

C23_Texts(cause) ==
    CASE cause = "submission" -> {"Error creating Gemini task", "Missing task_id in response",
                                  "Error creating video task",
                                  "Missing task_id in video response"}
      [] cause = "poll"       -> {"Error getting Gemini task status", "Error polling video task"}
      [] cause = "timeout"    -> {"Timeout waiting for task", "Timeout waiting for video"}
      [] cause = "download"   -> {"Error downloading file"}

----------------------------------------------------------------------------
(* C24: when the stream of a download breaks after the status was accepted *)
(* and the file was opened, the file stays at output_path and holds the    *)
(* chunks written before the break, no more and no less: the failing step  *)
(* does not change the file system, and neither does the way of the        *)
(* exception to the caller.                                                *)
C24_Written(f) ==
    Concat(SubSeq(f.resp.chunks, 1, Len(f.resp.chunks) - Len(f.stream)))

C24_Break(r, writing, output_path) ==
    (StepFrom(r, writing) /\ run'[r].pc = "unwind") =>
        /\ run[r].resp.status_code = HTTP_OK
        /\ output_path \in DOMAIN files
        /\ files[output_path] = C24_Written(run[r])
        /\ files' = files
        /\ dirs' = dirs

C24_PartialFileIsLeft ==
    [][\A r \in Runs :
          /\ C24_Break(r, "write_image", BaseImagePath(r))
          /\ C24_Break(r, "write_video", VideoOutputPath(r))
          /\ (StepFrom(r, "unwind") /\ C23_Cause(run[r]) = "stream") => files' = files]_vars

\* the image download broke after the first of three chunks: the caller got
\* the exception and the file holds that chunk
C24_Witness ==
    \E r \in Runs :
        /\ run[r].outcome.kind = "raised"
        /\ run[r].outcome.exc.cls = "ChunkedEncodingError"
        /\ Len(run[r].resp.chunks) = 3
        /\ BaseImagePath(r) \in DOMAIN files
        /\ files[BaseImagePath(r)] = <<"b">>

----------------------------------------------------------------------------
(* C25: in every reachable state, an entry of task_status that says        *)
(* "completed" belongs to a run whose pipeline call returned after both    *)
(* its downloads returned: the image file and the video file of that       *)
(* correlation id exist, they are the paths the two downloads of that run  *)
(* wrote to, and the links of the entry name exactly these two files.      *)
C25_DownloadedTo(f) ==
    {f.calls[i].args.output_path : i \in CallsOf(f, "_download_file")}

C25_CompletedMeansBothFiles ==
    \A h \in Handlers :
        (h \in DOMAIN task_status /\ task_status[h].status = "completed") =>
            /\ run[h].outcome.kind = "returned"
            /\ run[h].exc = NoExc
            /\ C25_DownloadedTo(run[h]) = {BaseImagePath(h), VideoOutputPath(h)}
            /\ run[h].ret = VideoOutputPath(h)
            /\ BaseImagePath(h) \in DOMAIN files /\ VideoOutputPath(h) \in DOMAIN files
            /\ task_status[h].base_image.filename = <<h, "image.png">>
            /\ task_status[h].video.filename = <<h, "video.mp4">>
            /\ <<OutputDir, task_status[h].base_image.filename>> = BaseImagePath(h)
            /\ <<OutputDir, task_status[h].video.filename>> = VideoOutputPath(h)
            /\ DOMAIN task_status[h] = {"status", "base_image", "video"}

\* both runs are recorded as completed, each with its own two files
C25_Witness ==
    /\ DOMAIN task_status = Handlers
    /\ \A h \in Handlers : task_status[h].status = "completed"
    /\ Cardinality(DOMAIN files) = 4

----------------------------------------------------------------------------
(* C26: the recorded status of a task only moves forward. In every step,   *)
(* an entry that enters task_status enters with status "processing"; an    *)
(* entry that says "processing" keeps that status or changes it to         *)
(* "completed" or "failed"; and an entry that says "completed" or "failed" *)
(* is left exactly as it is by every step of every thread.                 *)
C26_Terminal == {"completed", "failed"}

C26_Forward(h) ==
    /\ h \in DOMAIN task_status => h \in DOMAIN task_status'
    /\ (h \notin DOMAIN task_status /\ h \in DOMAIN task_status') =>
           task_status'[h].status = "processing"
    /\ (h \in DOMAIN task_status /\ task_status[h].status = "processing") =>
           task_status'[h].status \in {"processing"} \cup C26_Terminal
    /\ (h \in DOMAIN task_status /\ task_status[h].status \in C26_Terminal) =>
           task_status'[h] = task_status[h]

C26_StatusOnlyMovesForward ==
    /\ [](\A h \in DOMAIN task_status :
            task_status[h].status \in {"processing"} \cup C26_Terminal)
    /\ [][\A h \in Handlers : C26_Forward(h)]_vars

\* a task has ended while its own route has not answered yet and the other
\* task is still being worked on
C26_Witness ==
    \E h \in Handlers : \E g \in Handlers \ {h} :
        /\ h \in DOMAIN task_status /\ task_status[h].status \in C26_Terminal
        /\ handlers[h].pc = "respond"
        /\ g \in DOMAIN task_status /\ task_status[g].status = "processing"
        /\ worker[g] = "running"

----------------------------------------------------------------------------
(* C27: a polling call sends at least one status query whatever its        *)
(* timeout is, zero and negative ones included: once the call has left its *)
(* first iteration, a query of its endpoint has been sent, and every       *)
(* iteration sends its query before it decides anything. And the output    *)
(* check comes before the deadline check: an iteration whose response is   *)
(* an HTTP 200 with output returns that output, also when the elapsed time *)
(* is already past the timeout.                                            *)
C27_Queried(f, fn, query, endpoint) ==
    (CallsOf(f, fn) # {} /\ f.pc # query) => StatusQueries(f, endpoint) # {}

C27_Iteration(r, query, wait, endpoint) ==
    StepFrom(r, query) =>
        /\ Cardinality(StatusQueries(run'[r], endpoint)) =
               Cardinality(StatusQueries(run[r], endpoint)) + 1
        /\ HasOutput(run'[r].resp) =>
               /\ run'[r].exc = NoExc
               /\ run'[r].pc = DriverNext(wait)

C27_QueryFirstOutputBeforeDeadline ==
    /\ [](\A r \in Runs :
            /\ C27_Queried(run[r], "_wait_for_gemini_task", "gemini_query",
                           FREEPIK_GEMINI_ENDPOINT)
            /\ C27_Queried(run[r], "_wait_for_video_task", "video_query",
                           FREEPIK_VIDEO_ENDPOINT))
    /\ [][\A r \in Runs :
            /\ C27_Iteration(r, "gemini_query", "wait_gemini", FREEPIK_GEMINI_ENDPOINT)
            /\ C27_Iteration(r, "video_query", "wait_video", FREEPIK_VIDEO_ENDPOINT)]_vars

\* with a negative timeout, where the deadline has passed at the first
\* query already, both polls of a run returned the output of their response
C27_Witness ==
    \E r \in Runs :
        /\ run[r].timeout < 0
        /\ run[r].pc = "download_video"
        /\ run[r].exc = NoExc
        /\ Cardinality(StatusQueries(run[r], FREEPIK_GEMINI_ENDPOINT)) = 1
        /\ Cardinality(StatusQueries(run[r], FREEPIK_VIDEO_ENDPOINT)) = 1

----------------------------------------------------------------------------
(* C28: status queries taking no time, a polling call with an integer      *)
(* timeout >= 0 and an integer poll_interval > 0 sends at most             *)
(* floor(timeout / poll_interval) + 2 status queries, and it sends exactly *)
(* that many when every response is an HTTP 200 without output, which is   *)
(* the one way a call ends by its timeout error. While the call sleeps it  *)
(* has one query left at least.                                            *)
C28_MaxQueries(f) == (f.timeout \div f.poll_interval) + 2

C28_Poll(f, fn, sleep, endpoint) ==
    LET sent == Cardinality(StatusQueries(f, endpoint))
    IN  (f.timeout >= 0 /\ f.poll_interval > 0) =>
            /\ sent <= C28_MaxQueries(f)
            /\ f.pc = sleep => (Empty200(f.resp) /\ sent < C28_MaxQueries(f))
            /\ C5_TimedOut(f, fn) => (Empty200(f.resp) /\ sent = C28_MaxQueries(f))

C28_QueryCount ==
    \A r \in Runs :
        /\ C28_Poll(run[r], "_wait_for_gemini_task", "gemini_sleep", FREEPIK_GEMINI_ENDPOINT)
        /\ C28_Poll(run[r], "_wait_for_video_task", "video_sleep", FREEPIK_VIDEO_ENDPOINT)

\* a video poll whose timeout is not a multiple of its interval ended by
\* the timeout error after the image poll had used queries of its own
C28_Witness ==
    \E r \in Runs :
        /\ C5_TimedOut(run[r], "_wait_for_video_task")
        /\ run[r].timeout % run[r].poll_interval # 0
        /\ Cardinality(StatusQueries(run[r], FREEPIK_GEMINI_ENDPOINT)) >= 2
        /\ Cardinality(StatusQueries(run[r], FREEPIK_VIDEO_ENDPOINT)) = C28_MaxQueries(run[r])

----------------------------------------------------------------------------
(* C29: in the graph of the video agent the nodes improve_prompts,         *)
(* generate_image and generate_video run in that order, and generate_video *)
(* runs also when generate_image failed; a video task is submitted only    *)
(* with a non-empty image_url that generate_image produced and the state   *)
(* holds; and when generate_image failed, no video task is submitted and   *)
(* the error of the final state is the error of the video node, in place   *)
(* of the error of the image stage.                                        *)
C29_Order == <<"improve_prompts", "generate_image", "generate_video">>

C29_UpdatesOf(node) ==
    {agent.updates[i].update : i \in {j \in 1..Len(agent.updates) : agent.updates[j].node = node}}

C29_ImageFailed == \E u \in C29_UpdatesOf("generate_image") : "error" \in DOMAIN u

C29_ImageProduced ==
    {u.image_url : u \in {v \in C29_UpdatesOf("generate_image") : "image_url" \in DOMAIN v}}

C29_VideoTasks ==
    {run[AgentRun].calls[i].args.image_url : i \in CallsOf(run[AgentRun], "_create_video_task")}

C29_VideoNeedsProducedImage ==
    /\ Len(agent.updates) <= 3
    /\ \A i \in 1..Len(agent.updates) : agent.updates[i].node = C29_Order[i]
    /\ agent.pc = "end" => Len(agent.updates) = 3
    /\ \A url \in C29_VideoTasks :
          /\ url # ""
          /\ url \in C29_ImageProduced
          /\ agent.state.image_url = url
    /\ C29_ImageFailed =>
          /\ C29_VideoTasks = {}
          /\ agent.pc = "end" =>
                /\ agent.state.error.fmt = "Error generating video"
                /\ agent.state.error \in {u.error : u \in C29_UpdatesOf("generate_video")}

====
